---- MODULE Spec2Model ----
(***************************************************************************)
(* State-machine model of the GW2 MumbleLink plugin core:                  *)
(*   MumbleLinkReader  (src/mumble-reader.js)                              *)
(*   StateManager      (src/state-manager.js)                              *)
(*   the id -> name caches (src/cache/*.js)                                *)
(*                                                                         *)
(* A JavaScript value that may be null is modelled as a sequence of length *)
(* 0 (null) or 1 (the value).  A display name is a tuple: <<s>> for a      *)
(* literal name, <<kind, id>> for the template string `${kind} ${id}`.     *)
(***************************************************************************)
EXTENDS Integers, Sequences, FiniteSets, TLC

None == <<>>
Some(x) == <<x>>
IsNone(o) == Len(o) = 0
Val(o) == o[1]

Lit(s) == <<s>>
Fallback(kind, id) == <<kind, id>>

(***************************************************************************)
(* Bounds of the model.                                                    *)
(***************************************************************************)
\* largest uiTick value the game writes (uiTick is a u32 in the source)
MaxTick == 1
\* reads with an unchanged tick are explored up to this many stale cycles
MaxStale == 3
\* total number of on() calls explored
MaxOn == 2
\* interval timers that were overwritten without being cleared
MaxOrphans == 1
\* background fetches in flight per (dataset, id)
MaxInflight == 1
\* seconds past a max-age boundary that the clock is moved to
MaxSkew == 1
\* the id list of the Trading Post has at most this many batches
MaxBatches == 3
\* build() invocations explored at the same time
MaxBuilds == 2
\* longest query passed to search()
MaxQueryLen == 2
\* refresh() calls explored
MaxCalls == 3
\* the ms clock is moved on by this many half request intervals
MaxHalfIntervals == 2

(***************************************************************************)
(* Program constants.                                                      *)
(***************************************************************************)
maxStaleCycles == 3
MIN_REQUEST_INTERVAL_MS == 100
BATCH_SIZE == 200

(***************************************************************************)
(* Shared memory contents.  The game writes whole frames; a frame is the   *)
(* identity field (None when it is empty, the object its JSON text stands  *)
(* for, or a record with the single key `text` for text that JSON.parse    *)
(* rejects) and the decoded context struct.                                *)
(***************************************************************************)
ZeroContext == [mapId |-> 0, mapType |-> 0, mountIndex |-> 0, uiState |-> 0]

AnnIdentity ==
    [name |-> "Ann", profession |-> 8, spec |-> 0, map_id |-> 15,
     commander |-> FALSE, team_color_id |-> 0]

AnnContext == [mapId |-> 15, mapType |-> 5, mountIndex |-> 0, uiState |-> 8]

Frames ==
    << [identity |-> None, context |-> ZeroContext],
       [identity |-> Some(AnnIdentity), context |-> AnnContext],
       [identity |-> Some(AnnIdentity),
        context |-> [AnnContext EXCEPT !.mountIndex = 1]],
       [identity |-> Some([AnnIdentity EXCEPT !.spec = 5]),
        context |-> AnnContext],
       [identity |-> Some([text |-> "{\"name\":\"Ann\",\"prof"]),
        context |-> AnnContext] >>

FrameIds == 1..Len(Frames)

VARIABLES
    mem,            \* the MumbleLink mapping: [uiTick, frame]
    platformOk,     \* whether CreateFileMappingW / MapViewOfFile currently succeed
    reader,         \* MumbleLinkReader: #hMapFile, #pView, #lastTick, #staleCycles
    readLog,        \* the last reads of an open mapping (history, newest last)
    pollTimer,      \* StateManager.#pollTimer is set
    orphanTimers,   \* interval timers still running that #pollTimer no longer names
    previousState,  \* StateManager.#previousState
    listeners,      \* StateManager.#listeners: field -> callbacks in insertion order
    handles,        \* the unsubscribe functions on() has returned, per
                    \* (field, callback): how many were not called yet (live)
                    \* and how many were called
    dbOpen,         \* the SQLite connection of CacheDatabase is open
    store,          \* the rows of the maps and specializations tables
    pending,        \* background fetches in flight, per (dataset, id)
    now,            \* the clock, in seconds
    cycle,          \* what the most recent poll cycle did (history)
    lookup,         \* a script calling get(id) on one cache: the (dataset,
                    \* id) it asks for, the value the last call returned, and
                    \* whether a fetch of that id has failed (history)
    fetched,        \* per (dataset, id): what the last successful background
                    \* fetch stored (history)
    tpIndex,        \* TpItemIndex: #building, #ready, and the parity of the
                    \* number of build() calls and what the last one did
                    \* (history)
    tpStore,        \* tp_items rows, the schema_meta rows of the index,
                    \* and the tp_prices rows
    tpBuilds,       \* the build() invocations that are suspended at an await
    api             \* GW2ApiClient: the clock in ms, #lastRequestTime, the
                    \* #fetch invocations waiting in the throttle (the time
                    \* their timer is due) and the number of those whose
                    \* request is sent; the number of calls made and the
                    \* smallest time between two requests (history)

readerVars == <<mem, platformOk, reader, readLog>>
managerVars == <<pollTimer, orphanTimers, previousState, listeners, handles,
                 dbOpen, store, pending, now, cycle>>
indexVars == <<tpIndex, tpStore, tpBuilds, api>>
directVars == <<lookup, fetched, tpIndex, tpStore, tpBuilds, api>>
vars == <<mem, platformOk, reader, readLog, pollTimer, orphanTimers,
          previousState, listeners, handles, dbOpen, store, pending, now, cycle,
          lookup, fetched, tpIndex, tpStore, tpBuilds, api>>

(***************************************************************************)
(* MumbleLinkReader                                                        *)
(***************************************************************************)
ReaderInit ==
    [hMapFile |-> FALSE, pView |-> FALSE, lastTick |-> 0, staleCycles |-> 0]

\* The ways one open() call can go on the platform.
OpenOutcomes(ok) ==
    IF ok THEN {"ok"}
    ELSE {"createNull", "createThrows", "mapNull", "mapThrows"}

\* open(): returns [r |-> reader after the call, ok |-> the boolean returned,
\* lost |-> whether a handle or a view held before the call was overwritten
\* without being released]
ReaderOpen(r, outcome) ==
    CASE outcome = "createThrows" -> [r |-> r, ok |-> FALSE, lost |-> FALSE]
      [] outcome = "createNull" ->
            [r |-> [r EXCEPT !.hMapFile = FALSE], ok |-> FALSE,
             lost |-> r.hMapFile]
      [] outcome = "mapThrows" ->
            [r |-> [r EXCEPT !.hMapFile = TRUE], ok |-> FALSE,
             lost |-> r.hMapFile]
      [] outcome = "mapNull" ->
            [r |-> [r EXCEPT !.hMapFile = FALSE, !.pView = FALSE], ok |-> FALSE,
             lost |-> r.hMapFile \/ r.pView]
      [] OTHER ->
            [r |-> [r EXCEPT !.hMapFile = TRUE, !.pView = TRUE], ok |-> TRUE,
             lost |-> r.hMapFile \/ r.pView]

\* close()
ReaderClose(r) == [r EXCEPT !.hMapFile = FALSE, !.pView = FALSE]

\* The stale detection of read(): the reader after comparing uiTick.
StaleBrokenNoReset(r, uiTick) ==
    IF uiTick = r.lastTick
    THEN [r EXCEPT !.staleCycles = @ + 1]
    ELSE [r EXCEPT !.lastTick = uiTick]

StaleDetect(r, uiTick) ==
    IF uiTick = r.lastTick
    THEN [r EXCEPT !.staleCycles = @ + 1]
    ELSE [r EXCEPT !.staleCycles = 0, !.lastTick = uiTick]

\* #parseIdentity: an empty identity field gives null, and so does text
\* that JSON.parse throws on
ParseIdentity(frame) ==
    IF IsNone(frame.identity) \/ "text" \in DOMAIN Val(frame.identity)
    THEN None
    ELSE frame.identity

\* uiState bit tests of #parseContext
Bit(word, n) == (word \div (2 ^ n)) % 2 = 1

\* a #parseContext that takes the source's comments ("Bit 1" .. "Bit 7")
\* for positions counted from 0
ParseContextBitsFromOne(frame) ==
    [mapId |-> frame.context.mapId,
     mapType |-> frame.context.mapType,
     mountIndex |-> frame.context.mountIndex,
     uiState |-> [raw |-> frame.context.uiState,
                  isMapOpen |-> Bit(frame.context.uiState, 1),
                  isCompassTopRight |-> Bit(frame.context.uiState, 2),
                  isCompassRotating |-> Bit(frame.context.uiState, 3),
                  gameHasFocus |-> Bit(frame.context.uiState, 4),
                  isCompetitive |-> Bit(frame.context.uiState, 5),
                  textboxHasFocus |-> Bit(frame.context.uiState, 6),
                  isInCombat |-> Bit(frame.context.uiState, 7)]]

ParseContext(frame) ==
    [mapId |-> frame.context.mapId,
     mapType |-> frame.context.mapType,
     mountIndex |-> frame.context.mountIndex,
     uiState |-> [raw |-> frame.context.uiState,
                  isMapOpen |-> Bit(frame.context.uiState, 0),
                  isCompassTopRight |-> Bit(frame.context.uiState, 1),
                  isCompassRotating |-> Bit(frame.context.uiState, 2),
                  gameHasFocus |-> Bit(frame.context.uiState, 3),
                  isCompetitive |-> Bit(frame.context.uiState, 4),
                  textboxHasFocus |-> Bit(frame.context.uiState, 5),
                  isInCombat |-> Bit(frame.context.uiState, 6)]]

\* a read() whose identity parse error reaches the catch block of read()
ReaderReadAbortsOnBadIdentity(r, m) ==
    IF ~r.pView
    THEN [r |-> r, raw |-> None]
    ELSE LET r2 == StaleDetect(r, m.uiTick)
         IN  [r |-> r2,
              raw |-> IF IsNone(ParseIdentity(Frames[m.frame])) THEN None
                      ELSE Some([connected |-> r2.staleCycles < maxStaleCycles,
                                 uiTick |-> m.uiTick,
                                 identity |-> ParseIdentity(Frames[m.frame]),
                                 context |-> ParseContext(Frames[m.frame])])]

\* a read() that does its stale bookkeeping before looking at the view
ReaderReadCountsUnmapped(r, m) ==
    LET r2 == StaleDetect(r, m.uiTick)
    IN  IF ~r.pView
        THEN [r |-> r2, raw |-> None]
        ELSE [r |-> r2,
              raw |-> Some([connected |-> r2.staleCycles < maxStaleCycles,
                            uiTick |-> m.uiTick,
                            identity |-> ParseIdentity(Frames[m.frame]),
                            context |-> ParseContext(Frames[m.frame])])]

\* read(): returns [r |-> reader after the call, raw |-> snapshot or None]
ReaderRead(r, m) ==
    IF ~r.pView
    THEN [r |-> r, raw |-> None]
    ELSE LET r2 == StaleDetect(r, m.uiTick)
         IN  [r |-> r2,
              raw |-> Some([connected |-> r2.staleCycles < maxStaleCycles,
                            uiTick |-> m.uiTick,
                            identity |-> ParseIdentity(Frames[m.frame]),
                            context |-> ParseContext(Frames[m.frame])])]

\* A read that would count past the explored number of stale cycles.
ReadInBounds(r, m) ==
    r.pView /\ m.uiTick = r.lastTick => r.staleCycles < MaxStale

(***************************************************************************)
(* The environment of the reader: the game and the platform.               *)
(***************************************************************************)
\* the game writes a frame out of F with some tick
GameWrites(F) ==
    /\ \E t \in 0..MaxTick, f \in F : mem' = [uiTick |-> t, frame |-> f]
    /\ mem' # mem
    /\ UNCHANGED directVars
    /\ UNCHANGED <<platformOk, reader, readLog>>
    /\ UNCHANGED managerVars

PlatformChange ==
    /\ platformOk' = ~platformOk
    /\ UNCHANGED directVars
    /\ UNCHANGED <<mem, reader, readLog>>
    /\ UNCHANGED managerVars

(***************************************************************************)
(* Static seed tables (src/seed/*.js) and the rows of the cache database.  *)
(***************************************************************************)
MAP_TYPES_SEED ==
    [i \in 0..18 |->
        CASE i = 0 -> "Redirect" [] i = 1 -> "Character Creation"
          [] i = 2 -> "PvP" [] i = 3 -> "GvG" [] i = 4 -> "Instance"
          [] i = 5 -> "Open World" [] i = 6 -> "Tournament"
          [] i = 7 -> "Tutorial" [] i = 8 -> "User Tournament"
          [] i = 9 -> "WvW: Eternal Battlegrounds"
          [] i = 10 -> "WvW: Blue Borderlands"
          [] i = 11 -> "WvW: Green Borderlands"
          [] i = 12 -> "WvW: Red Borderlands" [] i = 13 -> "WvW Reward"
          [] i = 14 -> "WvW: Obsidian Sanctum"
          [] i = 15 -> "WvW: Edge of the Mists"
          [] i = 16 -> "Public Instance" [] i = 17 -> "Big Battle"
          [] OTHER -> "Armistice Bastion"]

PROFESSIONS_SEED ==
    [i \in 1..9 |->
        CASE i = 1 -> "Guardian" [] i = 2 -> "Warrior" [] i = 3 -> "Engineer"
          [] i = 4 -> "Ranger" [] i = 5 -> "Thief" [] i = 6 -> "Elementalist"
          [] i = 7 -> "Mesmer" [] i = 8 -> "Necromancer"
          [] OTHER -> "Revenant"]

MOUNTS_SEED ==
    [i \in 0..10 |->
        CASE i = 0 -> "None" [] i = 1 -> "Jackal" [] i = 2 -> "Griffon"
          [] i = 3 -> "Springer" [] i = 4 -> "Skimmer" [] i = 5 -> "Raptor"
          [] i = 6 -> "Roller Beetle" [] i = 7 -> "Warclaw"
          [] i = 8 -> "Skyscale" [] i = 9 -> "Skiff"
          [] OTHER -> "Siege Turtle"]

WVW_TEAM_COLORS_SEED ==
    [i \in {0, 9, 55, 376} |->
        CASE i = 0 -> "None" [] i = 9 -> "Red" [] i = 55 -> "Blue"
          [] OTHER -> "Green"]

\* ids of the remote-backed tables that the frames of the model can ask for
MapIds == {0, 15}
SpecIds == {5}
ProfIds == DOMAIN PROFESSIONS_SEED
FetchKeys ==
    ({"maps"} \X MapIds) \cup ({"specializations"} \X SpecIds)
        \cup ({"professions"} \X ProfIds)

SecondsPerDay == 86400
IndexStaleAfterDays == 7
\* search(): shortest query that is answered, and the LIMIT of the statement
MinQueryLength == 2
SEARCH_LIMIT == 20
MapsStaleAfterDays == 30
SpecsStaleAfterDays == 90
ProfessionsStaleAfterDays == 90

\* the clock (in seconds) when the process starts: late enough for a row
\* fetched at time 0 to be stale
StartClock == (SpecsStaleAfterDays + 1) * SecondsPerDay

\* a seeding that inserts every seed row whatever the table holds
SeedStaticDataInsertsAll(st, t) ==
    LET Insert(table, seed) ==
            table \cup {[id |-> i, name |-> Lit(seed[i])] : i \in DOMAIN seed}
        InsertOrReplace(table, seed) ==
            {r \in table : r.id \notin DOMAIN seed} \cup
            {[id |-> i, name |-> Lit(seed[i]), fetched_at |-> t] :
                i \in DOMAIN seed}
    IN  [st EXCEPT
            !.map_types = Insert(@, MAP_TYPES_SEED),
            !.wvw_team_colors = Insert(@, WVW_TEAM_COLORS_SEED),
            !.mounts = InsertOrReplace(@, MOUNTS_SEED),
            !.professions =
                [i \in DOMAIN st.professions |->
                    Some([name |-> Lit(PROFESSIONS_SEED[i]),
                          fetched_at |-> t])]]

\* #seedStaticData at time t.  The tables map_types, wvw_team_colors and
\* mounts are sets of rows; professions, which the manager also fetches,
\* is a function from the id to the row
SeedStaticData(st, t) ==
    LET InsertOrIgnore(table, seed) ==
            table \cup
            {[id |-> i, name |-> Lit(seed[i])] :
                i \in {j \in DOMAIN seed : ~\E r \in table : r.id = j}}
        InsertOrReplace(table, seed) ==
            {r \in table : r.id \notin DOMAIN seed} \cup
            {[id |-> i, name |-> Lit(seed[i]), fetched_at |-> t] :
                i \in DOMAIN seed}
    IN  [st EXCEPT
            !.map_types = InsertOrIgnore(@, MAP_TYPES_SEED),
            !.wvw_team_colors = InsertOrIgnore(@, WVW_TEAM_COLORS_SEED),
            !.mounts = InsertOrReplace(@, MOUNTS_SEED),
            !.professions =
                [i \in DOMAIN st.professions |->
                    IF i \in DOMAIN PROFESSIONS_SEED
                    THEN Some([name |-> Lit(PROFESSIONS_SEED[i]),
                               fetched_at |-> t])
                    ELSE st.professions[i]]]

\* the database right after CacheDatabase's constructor on an empty file:
\* the empty tables of #initSchema, seeded
StoreInit ==
    SeedStaticData([maps |-> [i \in MapIds |-> None],
                    specializations |-> [i \in SpecIds |-> None],
                    professions |-> [i \in ProfIds |-> None],
                    map_types |-> {}, wvw_team_colors |-> {}, mounts |-> {}],
                   StartClock)

\* #isStale of MapsCache / SpecializationsCache / ProfessionsCache
IsStaleAtMaxAge(fetchedAt, days, t) == t - fetchedAt >= days * SecondsPerDay

IsStale(fetchedAt, days, t) == t - fetchedAt > days * SecondsPerDay

(***************************************************************************)
(* The caches' get(id): [val |-> the object returned,                      *)
(*                       fetch |-> the fetches #fetchAndStore was called   *)
(*                                 for]                                    *)
(***************************************************************************)
MapsGetIgnoresRow(st, t, mapId) ==
    [val |-> [name |-> Fallback("Map", mapId), fromCache |-> FALSE],
     fetch |-> {<<"maps", mapId>>}]

MapsGet(st, t, mapId) ==
    LET row == st.maps[mapId]
    IN  IF ~IsNone(row)
        THEN [val |-> [name |-> Val(row).name, fromCache |-> TRUE],
              fetch |-> IF IsStale(Val(row).fetched_at, MapsStaleAfterDays, t)
                        THEN {<<"maps", mapId>>} ELSE {}]
        ELSE [val |-> [name |-> Fallback("Map", mapId), fromCache |-> FALSE],
              fetch |-> {<<"maps", mapId>>}]

SpecializationsGet(st, t, specId) ==
    IF specId = 0
    THEN [val |-> [name |-> Lit("Core"), elite |-> FALSE, fromCache |-> TRUE],
          fetch |-> {}]
    ELSE LET row == st.specializations[specId]
         IN  IF ~IsNone(row)
             THEN [val |-> [name |-> Val(row).name, elite |-> Val(row).elite,
                            fromCache |-> TRUE],
                   fetch |-> IF IsStale(Val(row).fetched_at,
                                        SpecsStaleAfterDays, t)
                             THEN {<<"specializations", specId>>} ELSE {}]
             ELSE [val |-> [name |-> Fallback("Spec", specId), elite |-> FALSE,
                            fromCache |-> FALSE],
                   fetch |-> {<<"specializations", specId>>}]

ProfessionsGet(st, t, professionId) ==
    IF professionId = 0
    THEN [val |-> [name |-> Lit("None"), fromCache |-> TRUE], fetch |-> {}]
    ELSE LET row == IF professionId \in DOMAIN st.professions
                    THEN st.professions[professionId] ELSE None
         IN  IF ~IsNone(row)
             THEN [val |-> [name |-> Val(row).name, fromCache |-> TRUE],
                   fetch |-> IF IsStale(Val(row).fetched_at,
                                        ProfessionsStaleAfterDays, t)
                             THEN {<<"professions", professionId>>} ELSE {}]
             ELSE [val |-> [name |-> Fallback("Profession", professionId),
                            fromCache |-> FALSE],
                   fetch |-> {<<"professions", professionId>>}]

\* a get() that answers from the seed file instead of the table
MountsGetFromSeed(st, mountIndex) ==
    IF mountIndex \in DOMAIN MOUNTS_SEED
    THEN [name |-> Lit(MOUNTS_SEED[mountIndex]), fromCache |-> TRUE]
    ELSE [name |-> Fallback("Mount", mountIndex), fromCache |-> FALSE]

MapTypesGet(st, mapType) ==
    LET rows == {r \in st.map_types : r.id = mapType}
    IN  IF rows # {}
        THEN [name |-> (CHOOSE r \in rows : TRUE).name, fromCache |-> TRUE]
        ELSE [name |-> Fallback("Mode", mapType), fromCache |-> FALSE]

MountsGet(st, mountIndex) ==
    LET rows == {r \in st.mounts : r.id = mountIndex}
    IN  IF rows # {}
        THEN [name |-> (CHOOSE r \in rows : TRUE).name, fromCache |-> TRUE]
        ELSE [name |-> Fallback("Mount", mountIndex), fromCache |-> FALSE]

WvWTeamColorsGet(st, teamColorId) ==
    LET rows == {r \in st.wvw_team_colors : r.id = teamColorId}
    IN  IF teamColorId = 0
        THEN [name |-> Lit("None"), fromCache |-> TRUE]
        ELSE IF rows # {}
             THEN [name |-> (CHOOSE r \in rows : TRUE).name,
                   fromCache |-> TRUE]
             ELSE [name |-> Fallback("Team", teamColorId),
                   fromCache |-> FALSE]

(***************************************************************************)
(* StateManager                                                            *)
(***************************************************************************)
\* Object.keys order of the object #resolveState builds
StateKeys ==
    <<"connected", "profession", "specialization", "mapName", "gameMode",
      "inCombat", "textboxFocused", "gameHasFocus", "commander", "mount",
      "wvwTeam", "characterName">>

\* the fields whose value is an object (typeof v === "object")
ObjectKeys ==
    {"profession", "specialization", "mapName", "gameMode", "mount", "wvwTeam"}

DisconnectedKeepsCharacter ==
    [connected |-> FALSE,
     profession |-> [id |-> 0, name |-> Lit("Unknown")],
     specialization |-> [id |-> 0, name |-> Lit("None"), elite |-> FALSE],
     mapName |-> [id |-> 0, name |-> Lit("Unknown")],
     gameMode |-> [id |-> 0, name |-> Lit("Unknown")],
     inCombat |-> FALSE,
     textboxFocused |-> FALSE,
     gameHasFocus |-> FALSE,
     commander |-> FALSE,
     mount |-> [id |-> 0, name |-> Lit("None")],
     wvwTeam |-> [id |-> 0, name |-> Lit("None")],
     characterName |-> "Ann"]

DisconnectedState ==
    [connected |-> FALSE,
     profession |-> [id |-> 0, name |-> Lit("Unknown")],
     specialization |-> [id |-> 0, name |-> Lit("None"), elite |-> FALSE],
     mapName |-> [id |-> 0, name |-> Lit("Unknown")],
     gameMode |-> [id |-> 0, name |-> Lit("Unknown")],
     inCombat |-> FALSE,
     textboxFocused |-> FALSE,
     gameHasFocus |-> FALSE,
     commander |-> FALSE,
     mount |-> [id |-> 0, name |-> Lit("None")],
     wvwTeam |-> [id |-> 0, name |-> Lit("None")],
     characterName |-> ""]

\* a resolve that never looks at the identity
IdentityOrDefault(raw, field, default) == default

\* x || 0 on the identity fields: a missing identity gives the defaults
IdentityOr(raw, field, default) ==
    IF IsNone(raw.identity) THEN default ELSE Val(raw.identity)[field]

\* #resolveState(raw): [threw |-> a cache statement ran on a closed database,
\*                      state |-> the resolved state,
\*                      fetch |-> the background fetches started]
ResolveState(rawOpt, st, t, dbo) ==
    IF IsNone(rawOpt) \/ ~Val(rawOpt).connected
    THEN [threw |-> FALSE, state |-> DisconnectedState, fetch |-> {}]
    ELSE LET raw == Val(rawOpt)
             professionId == IdentityOr(raw, "profession", 0)
             specId == IdentityOr(raw, "spec", 0)
             idMap == IdentityOr(raw, "map_id", 0)
             mapId == IF idMap # 0 THEN idMap ELSE raw.context.mapId
             mapType == raw.context.mapType
             mountIndex == raw.context.mountIndex
             teamColorId == IdentityOr(raw, "team_color_id", 0)
             prof == ProfessionsGet(st, t, professionId)
             spec == SpecializationsGet(st, t, specId)
             map == MapsGet(st, t, mapId)
         IN  IF ~dbo
             THEN \* #maps.get always runs its statement: it throws
                  [threw |-> TRUE, state |-> DisconnectedState, fetch |-> {}]
             ELSE [threw |-> FALSE,
                   state |->
                     [connected |-> TRUE,
                      profession |-> [id |-> professionId,
                                      name |-> prof.val.name],
                      specialization |-> [id |-> specId,
                                          name |-> spec.val.name,
                                          elite |-> spec.val.elite,
                                          fromCache |-> spec.val.fromCache],
                      mapName |-> [id |-> mapId, name |-> map.val.name],
                      gameMode |-> [id |-> mapType,
                                    name |-> MapTypesGet(st, mapType).name],
                      inCombat |-> raw.context.uiState.isInCombat,
                      textboxFocused |-> raw.context.uiState.textboxHasFocus,
                      gameHasFocus |-> raw.context.uiState.gameHasFocus,
                      commander |-> IdentityOr(raw, "commander", FALSE),
                      mount |-> [id |-> mountIndex,
                                 name |-> MountsGet(st, mountIndex).name],
                      wvwTeam |-> [id |-> teamColorId,
                                   name |-> WvWTeamColorsGet(st, teamColorId).name],
                      characterName |-> IdentityOr(raw, "name", "")],
                   fetch |-> prof.fetch \cup spec.fetch \cup map.fetch]

\* #isEqual(a, b) for the values of state field `key`.  Two objects are never
\* the same reference (every cycle builds new ones), so objects are compared
\* key by key over all of a's own keys.
IsEqualNameOnly(key, a, b) ==
    IF key \notin ObjectKeys THEN a = b ELSE a.name = b.name

IsEqual(key, a, b) ==
    IF key \notin ObjectKeys
    THEN a = b
    ELSE /\ Cardinality(DOMAIN a) = Cardinality(DOMAIN b)
         /\ \A k \in DOMAIN a : k \in DOMAIN b /\ a[k] = b[k]

\* the subscribers of the model: cbA returns, cbB throws an Error object,
\* cbN executes `throw null`.  Two more call back into the manager while
\* they are notified: cbO calls on("*", cbA), and cbR calls restart() when
\* getCurrentState() is not null.
Callbacks == {"cbA", "cbB"}
ThrowsError == {"cbB"}
ThrowsNull == {"cbN"}
\* the on(field, callback) calls of the model, and the keys of #listeners
OnCalls == {<<"mount", "cbA">>, <<"mount", "cbB">>, <<"*", "cbA">>}
ListenerKeys == {"mount", "specialization", "*"}
HandleKeys == ListenerKeys \X (Callbacks \cup ThrowsNull \cup {"cbO", "cbR"})

\* Set.prototype.add / delete on an insertion-ordered set
SetAdd(seq, x) ==
    IF \E i \in 1..Len(seq) : seq[i] = x THEN seq ELSE Append(seq, x)
SetDelete(seq, x) == SelectSeq(seq, LAMBDA y : y # x)

ListenersOf(lis, field) == IF field \in DOMAIN lis THEN lis[field] ELSE <<>>

\* the field loop body of #diffAndNotify: one call per listener of `field`
FieldCalls(field, lis, newState, prevOpt) ==
    [i \in 1..Len(ListenersOf(lis, field)) |->
        [cb |-> ListenersOf(lis, field)[i], key |-> field,
         arg |-> newState[field], state |-> newState, cur |-> prevOpt]]

RECURSIVE AllFieldCalls(_, _, _, _)
AllFieldCalls(fields, lis, newState, prevOpt) ==
    IF fields = <<>> THEN <<>>
    ELSE FieldCalls(Head(fields), lis, newState, prevOpt)
            \o AllFieldCalls(Tail(fields), lis, newState, prevOpt)

\* a wildcard loop that hands out the new state with the mount of the
\* state stored before
WildcardCallsMixed(changed, lis, newState, prevOpt) ==
    [i \in 1..Len(ListenersOf(lis, "*")) |->
        [cb |-> ListenersOf(lis, "*")[i], key |-> "*",
         arg |-> changed,
         state |-> IF IsNone(prevOpt) THEN newState
                   ELSE [newState EXCEPT !.mount = Val(prevOpt).mount],
         cur |-> prevOpt]]

WildcardCalls(changed, lis, newState, prevOpt) ==
    [i \in 1..Len(ListenersOf(lis, "*")) |->
        [cb |-> ListenersOf(lis, "*")[i], key |-> "*",
         arg |-> changed, state |-> newState, cur |-> prevOpt]]

\* the changed fields, in Object.keys order
ChangedFieldsAll(prevOpt, newState) == StateKeys

FirstPollChangesNothing(prevOpt, newState) ==
    IF IsNone(prevOpt) THEN <<>>
    ELSE SelectSeq(StateKeys,
                   LAMBDA k : ~IsEqual(k, Val(prevOpt)[k], newState[k]))

ChangedFields(prevOpt, newState) ==
    IF IsNone(prevOpt) THEN StateKeys
    ELSE SelectSeq(StateKeys,
                   LAMBDA k : ~IsEqual(k, Val(prevOpt)[k], newState[k]))

\* The calls made until an exception leaves #diffAndNotify.  A thrown Error
\* is caught and logged.  The catch handler evaluates err.message: for a
\* thrown null that is a TypeError raised inside the handler, which nothing
\* catches.
RECURSIVE UntilEscape(_)
UntilEscape(cs) ==
    IF cs = <<>> THEN <<>>
    ELSE IF Head(cs).cb \in ThrowsNull THEN <<Head(cs)>>
         ELSE <<Head(cs)>> \o UntilEscape(Tail(cs))

\* #diffAndNotify(newState): [changed, calls |-> the callbacks invoked, in order,
\*                            threw |-> an exception left the method]
DiffAndNotifyNoWildcard(prevOpt, newState, lis) ==
    LET changed == ChangedFields(prevOpt, newState)
        due == AllFieldCalls(changed, lis, newState, prevOpt)
    IN  [changed |-> changed,
         calls |-> UntilEscape(due),
         threw |-> \E i \in 1..Len(due) : due[i].cb \in ThrowsNull]

DiffAndNotify(prevOpt, newState, lis) ==
    LET changed == ChangedFields(prevOpt, newState)
        due == IF changed = <<>> THEN <<>>
               ELSE AllFieldCalls(changed, lis, newState, prevOpt)
                       \o WildcardCalls(changed, lis, newState, prevOpt)
    IN  [changed |-> changed,
         calls |-> UntilEscape(due),
         threw |-> \E i \in 1..Len(due) : due[i].cb \in ThrowsNull]

\* the last line of #poll(): what #previousState holds when the cycle ends;
\* a cycle that an exception aborted never reaches it
PreviousNotStored(aborted, prevOpt, state) == prevOpt

StoredState(aborted, prevOpt, state) ==
    IF aborted THEN prevOpt ELSE Some(state)

Schedule(pend, fetch) ==
    [k \in FetchKeys |-> IF k \in fetch THEN pend[k] + 1 ELSE pend[k]]

\* The history record of the cycle fired by `by` ("start", "restart" or
\* "timer"):
\*   nullReads     parity of the number of cycles since the last open() whose
\*                 read() returned null
\*   same          the cycle resolved the state that was stored before it
\*   hadCompleted  a cycle had run to its end before this one
\*   everCompleted a cycle has run to its end
\*   awaitingRetry the open() of the last start() failed and neither
\*                 start(), restart() nor stop() was called since
\*   nested        <<first, last>>: the positions in `calls` of the calls
\*                 made by the cycle of a restart() that a subscriber of
\*                 this cycle called; <<>> when there was none
\*   snapshots     what read() returned (less the tick) to this cycle and,
\*                 second, to the nested one
CycleRecord(by, openedOk, mapped, aborted, state, dn) ==
    [by |-> by,
     nullReads |-> IF ~mapped
                   THEN (IF by = "timer" THEN 1 - cycle.nullReads ELSE 1)
                   ELSE 0,
     aborted |-> aborted,
     changed |-> dn.changed,
     calls |-> dn.calls,
     same |-> ~aborted /\ previousState = Some(state),
     hadCompleted |-> cycle.everCompleted,
     everCompleted |-> cycle.everCompleted \/ ~aborted,
     awaitingRetry |-> CASE by = "start" -> ~openedOk
                         [] by = "restart" -> FALSE
                         [] OTHER -> cycle.awaitingRetry,
     nested |-> <<>>,
     snapshots |-> <<>>]

CycleInit ==
    [by |-> "none", nullReads |-> 0, aborted |-> FALSE, changed |-> <<>>,
     calls |-> <<>>, same |-> FALSE, hadCompleted |-> FALSE,
     everCompleted |-> FALSE, awaitingRetry |-> FALSE, nested |-> <<>>,
     snapshots |-> <<>>]

\* the listeners after the callbacks `calls` ran: on() adds to the Set that
\* the wildcard loop has yet to fetch and iterate
ListenersAfterCalls(calls, lis) ==
    IF \E i \in 1..Len(calls) : calls[i].cb = "cbO"
    THEN [lis EXCEPT !["*"] = SetAdd(@, "cbA")]
    ELSE lis

\* what read() returned, less the tick
Snapshot(rawOpt) ==
    IF IsNone(rawOpt) THEN None
    ELSE Some([connected |-> Val(rawOpt).connected,
               identity |-> Val(rawOpt).identity,
               context |-> Val(rawOpt).context])

\* #poll() on reader r with #previousState = prevOpt: read, resolve, diff
\* and notify, store.  An exception in #resolveState or #diffAndNotify ends
\* the cycle where it is raised.  A subscriber that calls restart() runs a
\* whole cycle of its own inside its invocation (close, open, read, resolve,
\* notify with #previousState = null, store); the notification of this
\* cycle then goes on, and this cycle stores its state last.  start() and
\* restart() have set #pollTimer before they call #poll().
Poll(r, prevOpt, by, openedOk) ==
    \E rd \in {ReaderRead(r, mem)} :
    \E res \in {ResolveState(rd.raw, store, now, dbOpen)} :
    \E lis \in {IF res.threw THEN listeners
                ELSE ListenersAfterCalls(
                        DiffAndNotify(prevOpt, res.state, listeners).calls,
                        listeners)} :
    \E dn \in {IF res.threw
               THEN [changed |-> <<>>, calls |-> <<>>, threw |-> FALSE]
               ELSE DiffAndNotify(prevOpt, res.state, lis)} :
    \E aborted \in {res.threw \/ dn.threw} :
    \E at \in {{i \in 1..Len(dn.calls) :
                    dn.calls[i].cb = "cbR" /\ ~IsNone(dn.calls[i].cur)}} :
        /\ ReadInBounds(r, mem)
        /\ \A k \in res.fetch : pending[k] < MaxInflight
        /\ \/ /\ at = {}
              /\ reader' = rd.r
              /\ pollTimer' = (pollTimer \/ by # "timer")
              /\ previousState' = StoredState(aborted, prevOpt, res.state)
              /\ pending' = Schedule(pending, res.fetch)
              /\ listeners' = lis
              /\ cycle' = [CycleRecord(by, openedOk, rd.r.pView, aborted,
                                       res.state, dn)
                             EXCEPT !.snapshots = <<Snapshot(rd.raw)>>]
           \/ \E i \in at :
              \E o \in OpenOutcomes(platformOk) :
              \E op \in {ReaderOpen(ReaderClose(rd.r), o)} :
              \E rd2 \in {ReaderRead(op.r, mem)} :
              \E res2 \in {ResolveState(rd2.raw, store, now, dbOpen)} :
              \E lis2 \in {IF res2.threw THEN lis
                           ELSE ListenersAfterCalls(
                                   DiffAndNotify(None, res2.state, lis).calls,
                                   lis)} :
              \E dn2 \in {IF res2.threw
                          THEN [changed |-> <<>>, calls |-> <<>>,
                                threw |-> FALSE]
                          ELSE DiffAndNotify(None, res2.state, lis2)} :
              \E aborted2 \in {res2.threw \/ dn2.threw} :
                 /\ ReadInBounds(op.r, mem)
                 /\ \A k \in res2.fetch :
                       Schedule(pending, res.fetch)[k] < MaxInflight
                 /\ reader' = rd2.r
                 /\ pollTimer' = TRUE
                 /\ previousState' =
                       StoredState(aborted,
                                   StoredState(aborted2, None, res2.state),
                                   res.state)
                 /\ pending' = Schedule(Schedule(pending, res.fetch), res2.fetch)
                 /\ listeners' = lis2
                 /\ cycle' = [CycleRecord(by, openedOk, rd.r.pView, aborted,
                                          res.state, dn)
                                EXCEPT !.calls = SubSeq(dn.calls, 1, i)
                                                 \o dn2.calls
                                                 \o SubSeq(dn.calls, i + 1,
                                                           Len(dn.calls)),
                                       !.nested = <<i + 1, i + Len(dn2.calls)>>,
                                       !.snapshots = <<Snapshot(rd.raw),
                                                       Snapshot(rd2.raw)>>,
                                       !.nullReads = IF rd2.r.pView THEN 0 ELSE 1,
                                       !.everCompleted = @ \/ ~aborted2,
                                       !.awaitingRetry = FALSE]

\* start()
Start ==
    /\ pollTimer => orphanTimers < MaxOrphans
    /\ \E o \in OpenOutcomes(platformOk) :
       \E op \in {ReaderOpen(reader, o)} :
          Poll(op.r, previousState, "start", op.ok)
    /\ orphanTimers' = IF pollTimer THEN orphanTimers + 1 ELSE orphanTimers
    /\ UNCHANGED directVars
    /\ UNCHANGED <<mem, platformOk, readLog, handles, dbOpen, store, now>>

\* stop()
Stop ==
    /\ pollTimer' = FALSE
    /\ reader' = ReaderClose(reader)
    /\ dbOpen' = FALSE
    /\ cycle' = [cycle EXCEPT !.awaitingRetry = FALSE]
    /\ UNCHANGED directVars
    /\ UNCHANGED <<mem, platformOk, readLog, orphanTimers, previousState,
                   listeners, handles, store, pending, now>>

\* the value restart() gives #previousState before it polls
RestartKeepsPrevious(prevOpt) == prevOpt

RestartPrevious(prevOpt) == None

\* whether the database connection is open after restart(): restart() does
\* not call #cacheDb.close()
RestartClosesDatabase(dbo) == FALSE

RestartDatabase(dbo) == dbo

\* restart()
Restart ==
    /\ \E o \in OpenOutcomes(platformOk) :
       \E op \in {ReaderOpen(ReaderClose(reader), o)} :
          Poll(op.r, RestartPrevious(previousState), "restart", op.ok)
    /\ dbOpen' = RestartDatabase(dbOpen)
    /\ UNCHANGED directVars
    /\ UNCHANGED <<mem, platformOk, readLog, orphanTimers, handles, store, now>>

\* an interval timer fires #poll()
PollTimerWaitsForFetches ==
    /\ \A k \in FetchKeys : pending[k] = 0
    /\ pollTimer \/ orphanTimers > 0
    /\ Poll(reader, previousState, "timer", TRUE)
    /\ UNCHANGED directVars
    /\ UNCHANGED <<mem, platformOk, readLog, orphanTimers, handles, dbOpen,
                   store, now>>

PollTimerFires ==
    /\ pollTimer \/ orphanTimers > 0
    /\ Poll(reader, previousState, "timer", TRUE)
    /\ UNCHANGED directVars
    /\ UNCHANGED <<mem, platformOk, readLog, orphanTimers, handles, dbOpen,
                   store, now>>

RECURSIVE Sum(_, _)
Sum(f, S) == IF S = {} THEN 0
             ELSE LET x == CHOOSE y \in S : TRUE IN f[x] + Sum(f, S \ {x})

\* the number of on() calls made so far
OnCount(h) == Sum([p \in HandleKeys |-> h[p].live + h[p].called], HandleKeys)

\* on(field, callback)
On ==
    /\ OnCount(handles) < MaxOn
    /\ \E c \in OnCalls :
         /\ listeners' = [listeners EXCEPT ![c[1]] = SetAdd(@, c[2])]
         /\ handles' = [handles EXCEPT ![c].live = @ + 1]
    /\ UNCHANGED directVars
    /\ UNCHANGED <<mem, platformOk, reader, readLog, pollTimer, orphanTimers,
                   previousState, dbOpen, store, pending, now, cycle>>

\* the listeners after the function returned by on(field, callback) ran
UnsubscribeClearsField(lis, field, cb) == [lis EXCEPT ![field] = <<>>]

Unsubscribed(lis, field, cb) == [lis EXCEPT ![field] = SetDelete(@, cb)]

\* calling, for the first time, a function that on(c[1], c[2]) returned
UnsubscribeFirst(c) ==
    /\ handles[c].live > 0
    /\ listeners' = Unsubscribed(listeners, c[1], c[2])
    /\ handles' = [handles EXCEPT ![c].live = @ - 1, ![c].called = @ + 1]
    /\ UNCHANGED directVars
    /\ UNCHANGED <<mem, platformOk, reader, readLog, pollTimer, orphanTimers,
                   previousState, dbOpen, store, pending, now, cycle>>

\* calling such a function once more
UnsubscribeAgain(c) ==
    /\ handles[c].called > 0
    /\ listeners' = Unsubscribed(listeners, c[1], c[2])
    /\ UNCHANGED directVars
    /\ UNCHANGED <<mem, platformOk, reader, readLog, pollTimer, orphanTimers,
                   previousState, handles, dbOpen, store, pending, now, cycle>>

Unsubscribe ==
    \E c \in HandleKeys : UnsubscribeFirst(c) \/ UnsubscribeAgain(c)

\* what the API client can resolve a background fetch with (None: failure)
ApiResponses(k) ==
    CASE k = <<"maps", 15>> ->
            {None, Some([id |-> 15, name |-> Lit("Lion's Arch")])}
      [] k = <<"specializations", 5>> ->
            {None,
             Some([id |-> 5, name |-> Lit("Druid"), profession_id |-> 4,
                   elite |-> TRUE]),
             Some([id |-> 5, name |-> Lit("Druid"), profession_id |-> 4,
                   elite |-> FALSE])}
      [] k[1] = "professions" ->
            {Some([id |-> k[2], name |-> Lit(PROFESSIONS_SEED[k[2]])])}
      [] OTHER -> {None}

\* the row #stmtUpsert.run writes
Upsert(st, k, data, t) ==
    CASE k[1] = "maps" ->
            [st EXCEPT !.maps[data.id] =
                Some([name |-> data.name, fetched_at |-> t])]
      [] k[1] = "specializations" ->
            [st EXCEPT !.specializations[data.id] =
                Some([name |-> data.name, profession_id |-> data.profession_id,
                      elite |-> data.elite, fetched_at |-> t])]
      [] OTHER ->
            [st EXCEPT !.professions[data.id] =
                Some([name |-> data.name, fetched_at |-> t])]

\* an exception raised inside the try block of #fetchAndStore
Throws == <<"throws", "Error">>

\* what the awaited client call of #fetchAndStore(k) ends with: the value it
\* resolves with (None: null) or an exception
FetchOutcomes(k) == ApiResponses(k) \cup {Throws}

FetchFailed(resp) == IsNone(resp) \/ resp = Throws

\* the rows after #fetchAndStore(k) got `resp` at time t; #stmtUpsert.run
\* throws on a closed database, inside the same try block
FetchAndStoreNegativeEntry(st, k, resp, t, dbo) ==
    IF ~dbo THEN st
    ELSE IF FetchFailed(resp)
         THEN Upsert(st, k, [id |-> k[2], name |-> Fallback(k[1], k[2]),
                             profession_id |-> 0, elite |-> FALSE], t)
         ELSE Upsert(st, k, Val(resp), t)

FetchAndStore(st, k, resp, t, dbo) ==
    IF FetchFailed(resp) \/ ~dbo THEN st ELSE Upsert(st, k, Val(resp), t)

\* the background #fetchAndStore(k) settles with `resp`
Settle(k, resp) ==
    /\ pending[k] > 0
    /\ pending' = [pending EXCEPT ![k] = @ - 1]
    /\ store' = FetchAndStore(store, k, resp, now, dbOpen)
    /\ fetched' = IF FetchFailed(resp) \/ ~dbOpen THEN fetched
                  ELSE [fetched EXCEPT ![k] = resp]
    /\ lookup' = IF (FetchFailed(resp) \/ ~dbOpen) /\ lookup.key = Some(k)
                 THEN [lookup EXCEPT !.failed = TRUE] ELSE lookup
    /\ UNCHANGED <<mem, platformOk, reader, readLog, pollTimer, orphanTimers,
                   previousState, listeners, handles, dbOpen, now, cycle>>
    /\ UNCHANGED indexVars

\* a background #fetchAndStore settles
FetchComplete == \E k \in FetchKeys : \E resp \in FetchOutcomes(k) : Settle(k, resp)

(***************************************************************************)
(* Initial states.  The database file outlives the process: a run starts   *)
(* on an empty file (StoreInit) or on the rows an earlier run fetched      *)
(* (StoreWarm).  The actions of the plugin subscribe in their constructors *)
(* before start() is called (ListenersPlugin).                             *)
(***************************************************************************)
StoreWarm ==
    [StoreInit EXCEPT
        !.maps[15] = Some([name |-> Lit("Lion's Arch"),
                           fetched_at |-> StartClock]),
        !.specializations[5] =
            Some([name |-> Lit("Druid"), profession_id |-> 4, elite |-> TRUE,
                  fetched_at |-> StartClock])]

\* as StoreWarm, with the specialization row fetched more than 90 days ago
StoreAged ==
    [StoreWarm EXCEPT
        !.specializations[5] =
            Some([name |-> Lit("Druid"), profession_id |-> 4, elite |-> TRUE,
                  fetched_at |-> 0])]

ListenersNone == [k \in ListenerKeys |-> <<>>]
HandlesOf(subs) ==
    [p \in HandleKeys |->
        [live |-> Cardinality({i \in 1..Len(subs) : subs[i] = p}),
         called |-> 0]]

RECURSIVE ListenersAfter(_)
\* the listeners after the on() calls `subs`
ListenersAfter(subs) ==
    IF subs = <<>> THEN ListenersNone
    ELSE LET before == ListenersAfter(SubSeq(subs, 1, Len(subs) - 1))
             last == subs[Len(subs)]
         IN  [before EXCEPT ![last[1]] = SetAdd(@, last[2])]

\* the row of (dataset, id), None when there is none
Row(st, k) ==
    CASE k[1] = "maps" -> st.maps[k[2]]
      [] k[1] = "specializations" -> st.specializations[k[2]]
      [] OTHER -> st.professions[k[2]]

\* a row exists because a fetch (of this or an earlier run) or the seeding
\* stored it
FetchedOf(st) ==
    [k \in FetchKeys |->
        IF IsNone(Row(st, k)) THEN None
        ELSE Some([id |-> k[2], name |-> Val(Row(st, k)).name])]

\* the offsets at which a batch of the id list starts
BatchOffsets == {b * BATCH_SIZE : b \in 0..(MaxBatches - 1)}

\* the items whose price the buttons show
PriceIds == {19721, 19976}

\* new GW2ApiClient().  Date.now() is StartClock * 1000 + api.clock, and
\* times are kept as ms since that moment; #lastRequestTime = 0, which
\* is more than a request interval before every Date.now(), is None
ApiInit ==
    [clock |-> 0, lastRequestTime |-> None, waiting |-> <<>>,
     inflight |-> <<>>, made |-> 0, minGap |-> None]

\* a TpItemIndex constructed on a database without tp_items rows
IndexInit ==
    /\ tpIndex = [building |-> FALSE, ready |-> FALSE, calls |-> 0,
                  last |-> "none"]
    /\ tpStore = [items |-> {}, rows |-> [b \in BatchOffsets |-> 0],
                  progress |-> None, builtAt |-> None, prices |-> [id \in PriceIds |-> None]]
    /\ tpBuilds = <<>>
    /\ api = ApiInit

ManagerFields(st, subs) ==
    /\ pollTimer = FALSE
    /\ orphanTimers = 0
    /\ previousState = None
    /\ listeners = ListenersAfter(subs)
    /\ handles = HandlesOf(subs)
    /\ dbOpen = TRUE
    /\ store = st
    /\ pending = [k \in FetchKeys |-> 0]
    /\ now = StartClock
    /\ cycle = CycleInit

\* a script that has not called get() yet; key None: there is no script
LookupInit(key) ==
    [key |-> key, result |-> None, parity |-> 0, failed |-> FALSE,
     reseeds |-> 0, leaked |-> FALSE]

ManagerInitWith(st, subs) ==
    /\ lookup = LookupInit(None)
    /\ fetched = FetchedOf(st)
    /\ IndexInit
    /\ ManagerFields(st, subs)

MemInit ==
    /\ mem = [uiTick |-> 0, frame |-> 1]
    /\ readLog = <<[uiTick |-> 0, connected |-> TRUE]>>
    /\ reader = ReaderInit

PluginSubs == << <<"mount", "cbA">>, <<"*", "cbA">> >>

(***************************************************************************)
(* Spec: the lifecycle of the StateManager (start, stop, restart, timer)   *)
(* with the plugin's subscribers, on a database an earlier run filled.     *)
(***************************************************************************)
GameWrite == GameWrites({2, 3})

Init ==
    /\ MemInit
    /\ platformOk \in BOOLEAN
    /\ ManagerInitWith(StoreWarm, PluginSubs)

Next ==
    \/ Start
    \/ Stop
    \/ Restart
    \/ PollTimerFires
    \/ GameWrite
    \/ PlatformChange

Spec == Init /\ [][Next]_vars

\* the interval timer keeps firing while it is active
FairSpec == Init /\ [][Next]_vars /\ WF_vars(PollTimerFires)

(***************************************************************************)
(* SpecNotify: subscribing, unsubscribing and the notifications of the     *)
(* poll cycles of a manager that was started once.                         *)
(***************************************************************************)
InitNotify ==
    /\ MemInit
    /\ platformOk = TRUE
    /\ ManagerInitWith(StoreWarm, <<>>)

StartOnce == ~pollTimer /\ Start

GameWriteNotify == GameWrites({2, 3})

NextNotify ==
    \/ StartOnce
    \/ PollTimerFires
    \/ On
    \/ Unsubscribe
    \/ GameWriteNotify

SpecNotify == InitNotify /\ [][NextNotify]_vars

(***************************************************************************)
(* SpecReenter: the same, with a subscriber that calls back into the       *)
(* manager from its callback: one that calls restart(), or one that calls  *)
(* on().                                                                   *)
(***************************************************************************)
InitReenter ==
    /\ MemInit
    /\ platformOk = TRUE
    /\ \E subs \in {<< <<"mount", "cbR">> >>, << <<"mount", "cbO">> >>} :
         ManagerInitWith(StoreWarm, subs)

SpecReenter == InitReenter /\ [][NextNotify]_vars

(***************************************************************************)
(* SpecCache: the poll cycles of a started manager on an empty database or *)
(* on one with a stale row, the background fetches settling in any order.  *)
(***************************************************************************)
CacheSubs == << <<"specialization", "cbA">>, <<"*", "cbA">> >>

InitCache ==
    /\ MemInit
    /\ platformOk = TRUE
    /\ \E st \in {StoreInit, StoreAged} : ManagerInitWith(st, CacheSubs)

GameWriteCache == GameWrites({2, 4})

NextCache ==
    \/ StartOnce
    \/ PollTimerFires
    \/ FetchComplete
    \/ GameWriteCache

SpecCache == InitCache /\ [][NextCache]_vars

(***************************************************************************)
(* SpecWake: stop() and restart() of a started manager on an empty         *)
(* database while background fetches are in flight.                        *)
(***************************************************************************)
InitWake ==
    /\ MemInit
    /\ platformOk = TRUE
    /\ ManagerInitWith(StoreInit, PluginSubs)

GameWriteWake == GameWrites({4})

NextWake ==
    \/ StartOnce
    \/ Stop
    \/ Restart
    \/ PollTimerFires
    \/ FetchComplete
    \/ GameWriteWake

SpecWake == InitWake /\ [][NextWake]_vars

(***************************************************************************)
(* SpecIsolation: poll cycles with subscribers that raise exceptions.      *)
(***************************************************************************)
IsolationSubs ==
    << <<"mount", "cbB">>, <<"mount", "cbN">>, <<"mount", "cbA">>,
       <<"*", "cbA">> >>

InitIsolation ==
    /\ MemInit
    /\ platformOk = TRUE
    /\ ManagerInitWith(StoreWarm, IsolationSubs)

GameWriteIsolation == GameWrites({2, 3})

NextIsolation ==
    \/ StartOnce
    \/ PollTimerFires
    \/ Unsubscribe
    \/ GameWriteIsolation

SpecIsolation == InitIsolation /\ [][NextIsolation]_vars

(***************************************************************************)
(* The reader driven directly (as src/test-mumble.js drives it).           *)
(***************************************************************************)
Push(log, e) == IF Len(log) < maxStaleCycles + 2 THEN Append(log, e)
                ELSE Append(Tail(log), e)

\* Two drivers: one (no lookup.key) keeps the log of what its reads
\* reported; the other (lookup.key "calls") keeps its last call and what
\* it returned in lookup.result, and in lookup.leaked whether some open()
\* so far overwrote a handle or a view it held without releasing it.
DoOpen ==
    /\ \E o \in OpenOutcomes(platformOk) :
         \E res \in {ReaderOpen(reader, o)} :
            /\ reader' = res.r
            /\ lookup' = IF IsNone(lookup.key) THEN lookup
                         ELSE [lookup EXCEPT
                                 !.result = Some([op |-> "open", ret |-> res.ok]),
                                 !.parity = 1 - @,
                                 !.leaked = @ \/ res.lost]
    /\ UNCHANGED <<fetched, tpIndex, tpStore, tpBuilds, api>>
    /\ UNCHANGED <<mem, platformOk, readLog>>
    /\ UNCHANGED managerVars

DoClose ==
    /\ reader' = ReaderClose(reader)
    /\ lookup' = IF IsNone(lookup.key) THEN lookup
                 ELSE [lookup EXCEPT !.result = Some([op |-> "close"]),
                                     !.parity = 1 - @]
    /\ UNCHANGED <<fetched, tpIndex, tpStore, tpBuilds, api>>
    /\ UNCHANGED <<mem, platformOk, readLog>>
    /\ UNCHANGED managerVars

DoRead ==
    /\ ReadInBounds(reader, mem)
    /\ \E res \in {ReaderRead(reader, mem)} :
          /\ reader' = res.r
          /\ readLog' = IF IsNone(res.raw) \/ ~IsNone(lookup.key) THEN readLog
                        ELSE Push(readLog, [uiTick |-> mem.uiTick,
                                            connected |-> Val(res.raw).connected])
          /\ lookup' = IF IsNone(lookup.key) THEN lookup
                       ELSE [lookup EXCEPT
                               !.result = Some([op |-> "read", ret |-> res.raw]),
                               !.parity = 1 - @]
    /\ UNCHANGED <<fetched, tpIndex, tpStore, tpBuilds, api>>
    /\ UNCHANGED <<mem, platformOk>>
    /\ UNCHANGED managerVars

InitReader ==
    /\ MemInit
    /\ platformOk \in BOOLEAN
    /\ ManagerFields(StoreInit, <<>>)
    /\ fetched = FetchedOf(StoreInit)
    /\ lookup \in {LookupInit(None), LookupInit(Some(<<"calls">>))}
    /\ IndexInit

GameWriteAny == GameWrites(FrameIds)

NextReader == DoOpen \/ DoClose \/ DoRead \/ GameWriteAny \/ PlatformChange

SpecReader == InitReader /\ [][NextReader]_vars

\* Date.now() moves on to one of `instants`
ClockAdvances(instants) ==
    /\ now' \in instants
    /\ now' > now
    /\ UNCHANGED <<mem, platformOk, reader, readLog, pollTimer, orphanTimers,
                   previousState, listeners, handles, dbOpen, store, pending,
                   cycle>>
    /\ UNCHANGED directVars

(***************************************************************************)
(* TpItemIndex (src/cache/maps.js 116-279).  An item is named by its index *)
(* in the id list of the API.  tpStore.rows[b] = n: the rows of the items  *)
(* b .. b + n - 1 of the batch at offset b are in tp_items; tpStore.items  *)
(* holds the offsets of the batches that were upserted.  An element of     *)
(* tpBuilds is a build() invocation suspended at                           *)
(*   pc = "ids"    await getAllTradeableItemIds(), processedOffset = i     *)
(*   pc = "items"  await getItems(batch at i) of a list of `len` ids       *)
(* with `now` the timestamp taken before the loop, and `from` the          *)
(* progress offset that was persisted when build() was called (history).   *)
(***************************************************************************)
\* #isStale() of the index
IndexIsStaleAtMaxAge(st, t) ==
    IF IsNone(st.builtAt) THEN TRUE
    ELSE t - Val(st.builtAt) >= IndexStaleAfterDays * SecondsPerDay

IndexIsStale(st, t) ==
    IF IsNone(st.builtAt) THEN TRUE
    ELSE t - Val(st.builtAt) > IndexStaleAfterDays * SecondsPerDay

\* if (this.#building) return
BuildNeverReturnsAtOnce(building) == FALSE

BuildReturnsAtOnce(building) == building

\* processedOffset = hasPartialBuild ? Number(progressMeta.value) : 0
ResumeFromZero(hasPartialBuild, progress) == 0

ResumeOffset(hasPartialBuild, progress) ==
    IF hasPartialBuild THEN Val(progress) ELSE 0

HasPartialBuild(st) == ~IsNone(st.progress) /\ Val(st.progress) > 0

\* build() up to its first await or its return
Build ==
    /\ IF BuildReturnsAtOnce(tpIndex.building)
          \/ (tpIndex.ready /\ ~IndexIsStale(tpStore, now)
                /\ ~HasPartialBuild(tpStore))
       THEN /\ tpIndex' = [tpIndex EXCEPT
                              !.calls = 1 - @,
                              !.last = IF tpIndex.building THEN "reentered"
                                       ELSE "skipped"]
            /\ UNCHANGED tpBuilds
       ELSE /\ Len(tpBuilds) < MaxBuilds
            /\ tpIndex' = [tpIndex EXCEPT !.building = TRUE, !.calls = 1 - @,
                                          !.last = "started"]
            /\ tpBuilds' =
                 Append(tpBuilds,
                        [pc |-> "ids",
                         i |-> ResumeOffset(HasPartialBuild(tpStore),
                                            tpStore.progress),
                         len |-> 0, now |-> 0,
                         from |-> IF HasPartialBuild(tpStore)
                                  THEN Val(tpStore.progress) ELSE 0])
    /\ UNCHANGED tpStore
    /\ UNCHANGED <<lookup, fetched, api>>
    /\ UNCHANGED readerVars
    /\ UNCHANGED managerVars

RemoveAt(seq, n) == SubSeq(seq, 1, n - 1) \o SubSeq(seq, n + 1, Len(seq))

\* the build leaves through the early return or the catch block (`why`),
\* and the finally block runs
BuildEndsStillBuilding(n, st, why) ==
    /\ tpBuilds' = RemoveAt(tpBuilds, n)
    /\ tpStore' = st
    /\ tpIndex' = [tpIndex EXCEPT !.last = why]

BuildEnds(n, st, why) ==
    /\ tpBuilds' = RemoveAt(tpBuilds, n)
    /\ tpStore' = st
    /\ tpIndex' = [tpIndex EXCEPT !.building = FALSE, !.last = why]

\* the statements that mark the build complete: both run, or the one that
\* records the timestamp throws, or the one that resets the offset throws
CompletionOutcomes == {"done", "builtAtThrows", "resetThrows"}

\* the for loop of invocation n reaches its test with index i, the rows st
\* written so far: the next batch is requested, or the build is marked
\* complete and the finally block runs
LoopTest(n, i, len, t, st) ==
    IF i < len
    THEN /\ tpBuilds' = [tpBuilds EXCEPT ![n] =
                            [@ EXCEPT !.pc = "items", !.i = i, !.len = len,
                                      !.now = t]]
         /\ tpStore' = st
         /\ tpIndex' = tpIndex
    ELSE \E outcome \in CompletionOutcomes :
           CASE outcome = "done" ->
                  /\ tpBuilds' = RemoveAt(tpBuilds, n)
                  /\ tpStore' = [st EXCEPT !.builtAt = Some(t),
                                           !.progress = Some(0)]
                  /\ tpIndex' = [tpIndex EXCEPT !.ready = TRUE,
                                                !.building = FALSE,
                                                !.last = "completed"]
             [] outcome = "builtAtThrows" -> BuildEnds(n, st, "threw")
             [] OTHER ->
                  BuildEnds(n, [st EXCEPT !.builtAt = Some(t)], "resetThrew")

\* lengths of the id list getAllTradeableItemIds() resolves with
\* (0: null or an empty list)
IdListLengths ==
    {b * BATCH_SIZE + r : b \in 0..(MaxBatches - 1), r \in {0, 1}}

\* invocation n resumes from await getAllTradeableItemIds()
IdsArrive(n) ==
    /\ tpBuilds[n].pc = "ids"
    /\ \E len \in IdListLengths :
         IF len = 0 THEN BuildEnds(n, tpStore, "noIds")
         ELSE LoopTest(n, tpBuilds[n].i, len, now, tpStore)
    /\ UNCHANGED <<lookup, fetched, api>>
    /\ UNCHANGED readerVars
    /\ UNCHANGED managerVars

\* a slice that runs to the end of the list
SliceToEnd(i, len) == len - i

\* allIds.slice(i, i + BATCH_SIZE).length for a list of len ids, i < len
SliceLength(i, len) ==
    IF i + BATCH_SIZE <= len THEN BATCH_SIZE ELSE len - i

\* what one iteration can do after await getItems(batch): insert the items
\* and save the progress, save the progress only ("none": getItems gave
\* null because the request failed, or an empty list), or throw from
\* insertMany or from the progress statement
BatchOutcomes == {"items", "none", "insertThrows", "progressThrows"}

\* invocation n resumes from await getItems(batch)
ItemsArrive(n) ==
    /\ tpBuilds[n].pc = "items"
    /\ \E outcome \in BatchOutcomes :
         LET task == tpBuilds[n]
             inserted == [tpStore EXCEPT
                             !.items = @ \cup {task.i},
                             !.rows[task.i] =
                                 IF @ > SliceLength(task.i, task.len) THEN @
                                 ELSE SliceLength(task.i, task.len)]
         IN  CASE outcome = "items" ->
                    LoopTest(n, task.i + BATCH_SIZE, task.len, task.now,
                             [inserted EXCEPT
                                !.progress = Some(task.i + BATCH_SIZE)])
               [] outcome = "none" ->
                    LoopTest(n, task.i + BATCH_SIZE, task.len, task.now,
                             [tpStore EXCEPT
                                !.progress = Some(task.i + BATCH_SIZE)])
               [] outcome = "insertThrows" -> BuildEnds(n, tpStore, "threw")
               [] OTHER -> BuildEnds(n, inserted, "threw")
    /\ UNCHANGED <<lookup, fetched, api>>
    /\ UNCHANGED readerVars
    /\ UNCHANGED managerVars

BuildResumes == \E n \in 1..Len(tpBuilds) : IdsArrive(n) \/ ItemsArrive(n)

\* the process exits (SIGINT, SIGTERM, a crash) and the plugin is launched
\* again: a new TpItemIndex is constructed on the same database
Relaunch ==
    /\ tpBuilds' = <<>>
    /\ tpIndex' = [tpIndex EXCEPT !.building = FALSE,
                                  !.ready = (tpStore.items # {})]
    /\ UNCHANGED tpStore
    /\ UNCHANGED <<lookup, fetched, api>>
    /\ UNCHANGED readerVars
    /\ UNCHANGED managerVars

(***************************************************************************)
(* SpecIndex: build() calls on the index, the awaited requests resolving,  *)
(* the process being relaunched, the clock passing the 7 days.             *)
(***************************************************************************)
IndexInstants ==
    {StartClock + d * SecondsPerDay + e :
        d \in {0, IndexStaleAfterDays}, e \in 0..MaxSkew}

ClockIndex == ClockAdvances(IndexInstants)

InitIndex ==
    /\ MemInit
    /\ platformOk = TRUE
    /\ ManagerInitWith(StoreInit, <<>>)

NextIndex == Build \/ BuildResumes \/ Relaunch \/ ClockIndex

SpecIndex == InitIndex /\ [][NextIndex]_vars

\* every awaited request settles (fetch resolves or rejects, the timer of
\* the throttle fires), so a suspended build() is resumed
NextSettle == Build \/ BuildResumes \/ Relaunch

SpecIndexFair == InitIndex /\ [][NextSettle]_vars /\ WF_vars(BuildResumes)

(***************************************************************************)
(* TpItemIndex.search().  A string is the sequence of its characters.      *)
(***************************************************************************)
\* the name of the item at index i of the id list, as /v2/items gives it
NameOf(i) ==
    LET names == << <<"A", "b", "a">>, <<"b", "B">>, <<"c">> >>
    IN  names[(i % Len(names)) + 1]

\* the case folding of LIKE (ASCII letters only)
Lower(c) == CASE c = "A" -> "a" [] c = "B" -> "b" [] OTHER -> c

\* str LIKE pat without an ESCAPE clause: % stands for any run of
\* characters, _ for any one character
RECURSIVE Like(_, _)
Like(pat, str) ==
    IF pat = <<>> THEN str = <<>>
    ELSE IF Head(pat) = "%"
         THEN Like(Tail(pat), str) \/ (str # <<>> /\ Like(pat, Tail(str)))
         ELSE /\ str # <<>>
              /\ Head(pat) = "_" \/ Lower(Head(pat)) = Lower(Head(str))
              /\ Like(Tail(pat), Tail(str))

\* the first n items of the set `found`, in the order of the primary key
RECURSIVE Limit(_, _)
Limit(found, n) ==
    IF n = 0 \/ found = {} THEN {}
    ELSE LET first == CHOOSE i \in found : \A j \in found : i <= j
         IN  {first} \cup Limit(found \ {first}, n - 1)

\* search(query), query None for null: SELECT ... WHERE name LIKE
\* '%query%' LIMIT 20 on the rows of st, a table scan
Search(st, query) ==
    IF IsNone(query) \/ Len(Val(query)) < MinQueryLength THEN {}
    ELSE LET pat == <<"%">> \o Val(query) \o <<"%">>
             rows == UNION {b..(b + st.rows[b] - 1) : b \in BatchOffsets}
         IN  Limit({i \in rows : Like(pat, NameOf(i))}, SEARCH_LIMIT)

\* the queries of the model: null, and the strings typed into the search
\* field of the property inspector
Queries ==
    {None} \cup
    {Some(q) : q \in UNION {[1..n -> {"A", "_"}] : n \in 0..MaxQueryLen}}

\* const results = this.#itemIndex.search(query)
DoSearch ==
    /\ ~IsNone(lookup.key)
    /\ Val(lookup.key)[1] = "search"
    /\ lookup' = [lookup EXCEPT
                    !.result = Some(Search(tpStore, Val(lookup.key)[2])),
                    !.parity = 1 - @]
    /\ UNCHANGED fetched
    /\ UNCHANGED indexVars
    /\ UNCHANGED readerVars
    /\ UNCHANGED managerVars

(***************************************************************************)
(* GW2ApiClient.#fetch and TpPricesCache (src/gw2-api-client.js 166-212,   *)
(* src/cache/tp-prices.js 8-72).  refresh(itemId) awaits getItemPrice,     *)
(* which awaits #fetch: the call runs up to the throttle's timer or up to  *)
(* the request (Refresh), a timer that is due resumes it up to the request *)
(* (ApiTimerFires), and the response resumes it to its end                 *)
(* (RefreshSettles).                                                       *)
(***************************************************************************)
\* what /commerce/prices/<id> answers with: one side of the listing, which
\* the answer may lack, and the answer, None for a failed request
PriceResponses ==
    {None} \cup
    {Some([buys |-> b, sells |-> s]) :
        b \in {None, Some([unit_price |-> 1, quantity |-> 2])},
        s \in {None, Some([unit_price |-> 3, quantity |-> 4])}}

\* a getItemPrice that takes the sell listing for both sides
GetItemPriceSellsOnly(resp) ==
    IF IsNone(resp) \/ IsNone(Val(resp).sells) THEN None
    ELSE Some([buys |-> Val(Val(resp).sells), sells |-> Val(Val(resp).sells)])

\* getItemPrice: data.buys || { unit_price: 0, quantity: 0 }
GetItemPrice(resp) ==
    LET Side(x) == IF IsNone(x) THEN [unit_price |-> 0, quantity |-> 0]
                   ELSE Val(x)
    IN  IF IsNone(resp) THEN None
        ELSE Some([buys |-> Side(Val(resp).buys),
                   sells |-> Side(Val(resp).sells)])

\* a get() that answers an absent entry with a row of zeros
PricesGetZeroRow(st, itemId) ==
    IF IsNone(st.prices[itemId])
    THEN Some([buyPrice |-> 0, sellPrice |-> 0, buyQuantity |-> 0,
               sellQuantity |-> 0, fetchedAt |-> 0])
    ELSE st.prices[itemId]

\* TpPricesCache.get(itemId)
PricesGet(st, itemId) == st.prices[itemId]

\* #fetch from this.#lastRequestTime = Date.now() to the await of fetch(url)
SendRequest(a, id) ==
    LET gap == a.clock - Val(a.lastRequestTime)
    IN  [a EXCEPT !.lastRequestTime = Some(a.clock),
                  !.inflight = Append(@, id),
                  !.minGap = IF IsNone(a.lastRequestTime) THEN @
                             ELSE IF IsNone(@) \/ gap < Val(@) THEN Some(gap)
                             ELSE @]

\* pricesCache.refresh(itemId) up to its first suspension: the throttle
\* of #fetch waits for the rest of the interval or lets the request go
Refresh ==
    /\ lookup.key = Some(<<"price">>)
    /\ api.made < MaxCalls
    /\ \E id \in PriceIds :
         LET a == [api EXCEPT !.made = @ + 1]
             elapsed == api.clock - Val(api.lastRequestTime)
         IN  api' = IF ~IsNone(api.lastRequestTime)
                        /\ elapsed < MIN_REQUEST_INTERVAL_MS
                     THEN [a EXCEPT !.waiting = Append(@,
                             [id |-> id,
                              due |-> api.clock
                                      + (MIN_REQUEST_INTERVAL_MS - elapsed)])]
                     ELSE SendRequest(a, id)
    /\ UNCHANGED <<lookup, fetched, tpIndex, tpStore, tpBuilds>>
    /\ UNCHANGED readerVars
    /\ UNCHANGED managerVars

\* the timer of a waiting #fetch is due: the call goes on to its request
ApiTimerFires ==
    /\ \E i \in 1..Len(api.waiting) :
         /\ api.waiting[i].due <= api.clock
         /\ api' = SendRequest([api EXCEPT !.waiting = RemoveAt(@, i)],
                               api.waiting[i].id)
    /\ UNCHANGED <<lookup, fetched, tpIndex, tpStore, tpBuilds>>
    /\ UNCHANGED readerVars
    /\ UNCHANGED managerVars

\* the request of a refresh() settles: null for a failed request,
\* otherwise the upsert and { buyPrice, sellPrice }
RefreshSettles ==
    /\ \E i \in 1..Len(api.inflight), resp \in PriceResponses :
         LET id == api.inflight[i]
             data == GetItemPrice(resp)
             t == StartClock + (api.clock \div 1000)
         IN  /\ api' = [api EXCEPT !.inflight = RemoveAt(@, i)]
             /\ tpStore' = IF IsNone(data) THEN tpStore
                           ELSE [tpStore EXCEPT !.prices[id] =
                                   Some([buyPrice |-> Val(data).buys.unit_price,
                                         sellPrice |->
                                             Val(data).sells.unit_price,
                                         buyQuantity |->
                                             Val(data).buys.quantity,
                                         sellQuantity |->
                                             Val(data).sells.quantity,
                                         fetchedAt |-> t])]
             /\ lookup' = [lookup EXCEPT
                   !.result = Some([op |-> "refresh", id |-> id,
                                    fetched |-> resp,
                                    ret |-> IF IsNone(data) THEN None
                                            ELSE Some([buyPrice |->
                                                   Val(data).buys.unit_price,
                                                 sellPrice |->
                                                   Val(data).sells.unit_price])]),
                   !.parity = 1 - @]
    /\ UNCHANGED <<fetched, tpIndex, tpBuilds>>
    /\ UNCHANGED readerVars
    /\ UNCHANGED managerVars

\* const cached = this.#pricesCache.get(itemId)
PriceGet ==
    /\ lookup.key = Some(<<"price">>)
    /\ \E id \in PriceIds :
         lookup' = [lookup EXCEPT
                      !.result = Some([op |-> "get", id |-> id,
                                       fetched |-> None,
                                       ret |-> PricesGet(tpStore, id)]),
                      !.parity = 1 - @]
    /\ UNCHANGED fetched
    /\ UNCHANGED indexVars
    /\ UNCHANGED readerVars
    /\ UNCHANGED managerVars

\* time passes, half a request interval at a time
ApiTick ==
    /\ lookup.key = Some(<<"price">>)
    /\ api.clock < MaxHalfIntervals * (MIN_REQUEST_INTERVAL_MS \div 2)
    /\ api' = [api EXCEPT !.clock = @ + (MIN_REQUEST_INTERVAL_MS \div 2)]
    /\ UNCHANGED <<lookup, fetched, tpIndex, tpStore, tpBuilds>>
    /\ UNCHANGED readerVars
    /\ UNCHANGED managerVars

(***************************************************************************)
(* GW2ApiClient.getAllWvWObjectives (src/gw2-api-client.js 107-132), one   *)
(* step per await of #fetch.  lookup.result is the call: None while it     *)
(* waits for the list of ids, then the loop index i, the length of the     *)
(* list, the requests sent (offset and number of ids), the offsets of the  *)
(* chunks whose objectives are in `results`, the offsets of the chunks     *)
(* whose request failed (history), and whether the call returned null.     *)
(***************************************************************************)
ObjectivesResumes ==
    LET LoopTo(i, len, call) ==
            IF i < len
            THEN [call EXCEPT !.pc = "batch", !.i = i, !.len = len,
                     !.requests = Append(@, <<i, SliceLength(i, len)>>)]
            ELSE [call EXCEPT !.pc = "done", !.i = i, !.len = len]
        started == [op |-> "objectives", pc |-> "done", i |-> 0, len |-> 0,
                    requests |-> <<>>, results |-> {}, failed |-> {},
                    null |-> FALSE]
    IN  /\ lookup.key = Some(<<"objectives">>)
        /\ \/ /\ IsNone(lookup.result)
              /\ \E ids \in {None} \cup {Some(len) : len \in IdListLengths} :
                   lookup' = [lookup EXCEPT
                      !.result = IF IsNone(ids)
                                 THEN Some([started EXCEPT !.null = TRUE])
                                 ELSE Some(LoopTo(0, Val(ids), started)),
                      !.parity = 1 - @]
           \/ /\ ~IsNone(lookup.result)
              /\ Val(lookup.result).pc = "batch"
              /\ \E ok \in BOOLEAN :
                   LET call == Val(lookup.result)
                       kept == IF ok
                               THEN [call EXCEPT !.results = @ \cup {call.i}]
                               ELSE [call EXCEPT !.failed = @ \cup {call.i}]
                   IN  lookup' = [lookup EXCEPT
                          !.result = Some(LoopTo(call.i + BATCH_SIZE,
                                                 call.len, kept)),
                          !.parity = 1 - @]
        /\ UNCHANGED fetched
        /\ UNCHANGED indexVars
        /\ UNCHANGED readerVars
        /\ UNCHANGED managerVars

(***************************************************************************)
(* A script that decodes and resolves one buffer.                          *)
(***************************************************************************)
\* the uiState words written by the game: every combination of the bits
\* 0 to 6, and some of them with higher bits set as well (bit 31 is beyond
\* the integers of the model checker)
FlagWords ==
    (0..127) \cup
    {w + h : w \in {0, 8, 40, 64, 127}, h \in {128, 65536, 2147483520}}

\* read() and #resolveState(raw) on a mapping that holds Ann's frame with
\* the uiState word of the script, while the tick advances
DoDecode ==
    /\ ~IsNone(lookup.key)
    /\ Val(lookup.key)[1] = "uiState"
    /\ \E frame \in {[identity |-> Some(AnnIdentity),
                      context |-> [AnnContext EXCEPT
                                      !.uiState = Val(lookup.key)[2]]]} :
       \E raw \in {[connected |-> TRUE, uiTick |-> 1,
                    identity |-> ParseIdentity(frame),
                    context |-> ParseContext(frame)]} :
       \E res \in {ResolveState(Some(raw), store, now, dbOpen)} :
          /\ \A f \in res.fetch : pending[f] < MaxInflight
          /\ pending' = Schedule(pending, res.fetch)
          /\ lookup' = [lookup EXCEPT
                          !.result = Some([raw |-> raw, state |-> res.state]),
                          !.parity = 1 - @]
    /\ UNCHANGED <<mem, platformOk, reader, readLog, pollTimer, orphanTimers,
                   previousState, listeners, handles, dbOpen, store, now,
                   cycle, fetched>>
    /\ UNCHANGED indexVars

(***************************************************************************)
(* SpecTp: the trading post components driven directly, as the action of   *)
(* src/actions/tp-price.js drives them, on the tables that earlier builds  *)
(* left behind.                                                            *)
(***************************************************************************)
\* the script either calls search(query), on the table that builds over
\* lists of several lengths, with batches stored and batches without
\* items, left with the row counts r, or shows the prices of buttons
\* (refresh() when they appear and when they are polled, get() when they
\* are drawn), or builds the index on an empty table, or calls
\* getAllWvWObjectives(), or reads and resolves a buffer with one of the
\* uiState words
InitTp ==
    /\ MemInit
    /\ platformOk = TRUE
    /\ ManagerFields(StoreInit, <<>>)
    /\ fetched = FetchedOf(StoreInit)
    /\ tpBuilds = <<>>
    /\ api = ApiInit
    /\ \E r \in [BatchOffsets -> {0, 1, BATCH_SIZE}],
          key \in {<<"price">>, <<"build">>, <<"objectives">>}
                  \cup {<<"search", q>> : q \in Queries}
                  \cup ({"uiState"} \X FlagWords) :
         LET none == \A b \in BatchOffsets : r[b] = 0
         IN  /\ key[1] # "search" => none
             /\ tpIndex = [building |-> FALSE, ready |-> ~none, calls |-> 0,
                           last |-> "none"]
             /\ tpStore = [items |-> {b \in BatchOffsets : r[b] > 0},
                           rows |-> r,
                           progress |-> IF none THEN None ELSE Some(0),
                           builtAt |-> IF none THEN None
                                       ELSE Some(StartClock),
                           prices |-> [id \in PriceIds |-> None]]
             /\ lookup = LookupInit(Some(key))

NextTp ==
    \/ DoSearch
    \/ Refresh
    \/ ApiTimerFires
    \/ RefreshSettles
    \/ PriceGet
    \/ ApiTick
    \/ (lookup.key = Some(<<"build">>) /\ NextSettle)
    \/ ObjectivesResumes
    \/ DoDecode

SpecTp == InitTp /\ [][NextTp]_vars

(***************************************************************************)
(* SpecGet: the remote-backed caches driven directly (as the cache test of *)
(* src/test-mumble.js drives them): get(id) calls, the background fetches  *)
(* settling, and the clock passing the max-age of the rows.                *)
(***************************************************************************)
\* the get(id) calls of the model, as (dataset, id)
GetKeys ==
    ({"maps"} \X MapIds) \cup ({"specializations"} \X SpecIds)
        \cup ({"professions"} \X {8})
        \cup ({"map_types", "mounts", "wvw_team_colors"} \X {0, 9, 10, 99})

\* the static caches have no client: their get() starts no fetch
CacheGet(st, t, k) ==
    CASE k[1] = "maps" -> MapsGet(st, t, k[2])
      [] k[1] = "specializations" -> SpecializationsGet(st, t, k[2])
      [] k[1] = "professions" -> ProfessionsGet(st, t, k[2])
      [] k[1] = "map_types" ->
            [val |-> MapTypesGet(st, k[2]), fetch |-> {}]
      [] k[1] = "mounts" -> [val |-> MountsGet(st, k[2]), fetch |-> {}]
      [] OTHER -> [val |-> WvWTeamColorsGet(st, k[2]), fetch |-> {}]

\* const result = cache.get(id)
Get(k) ==
    \E g \in {CacheGet(store, now, k)} :
        /\ lookup.key = Some(k)
        /\ \A f \in g.fetch : pending[f] < MaxInflight
        /\ pending' = Schedule(pending, g.fetch)
        /\ lookup' = [lookup EXCEPT !.result = Some(g.val),
                                     !.parity = 1 - @]
        /\ UNCHANGED <<mem, platformOk, reader, readLog, pollTimer,
                       orphanTimers, previousState, listeners, handles,
                       dbOpen, store, now, cycle, fetched>>
        /\ UNCHANGED indexVars

DoGet == Val(lookup.key)[1] # "uiState" /\ Get(Val(lookup.key))

\* the instants at which a row written at StartClock reaches and passes
\* the max-age of its dataset
GetInstants ==
    {StartClock + d * SecondsPerDay + e :
        d \in {0, MapsStaleAfterDays, SpecsStaleAfterDays}, e \in 0..MaxSkew}

ClockGet == ClockAdvances(GetInstants)

\* as StoreWarm, when the seeded tables were filled by a version of the
\* plugin whose seed files had another name for id 9, lacked the ids 10 and
\* 55, and gave map type 99 a name
StoreEdited ==
    LET Edit(table) ==
            {IF r.id = 9 THEN [r EXCEPT !.name = Lit("Edited")] ELSE r :
                r \in {q \in table : q.id \notin {10, 55}}}
    IN  [StoreWarm EXCEPT
            !.map_types = Edit(@) \cup {[id |-> 99, name |-> Lit("Added")]},
            !.wvw_team_colors = Edit(@),
            !.mounts = Edit(@),
            !.professions[8] = Some([name |-> Lit("Edited"),
                                     fetched_at |-> StartClock])]

\* the plugin is launched again: new CacheDatabase(dataDir) on the same
\* file runs #initSchema and #seedStaticData; the fetches of the process
\* that ended are gone
Reseed ==
    /\ store' = SeedStaticData(store, now)
    /\ fetched' = FetchedOf(SeedStaticData(store, now))
    /\ pending' = [k \in FetchKeys |-> 0]
    /\ lookup' = [lookup EXCEPT !.reseeds = 1 - @]
    /\ UNCHANGED <<mem, platformOk, reader, readLog, pollTimer, orphanTimers,
                   previousState, listeners, handles, dbOpen, now, cycle>>
    /\ UNCHANGED indexVars

InitGet ==
    /\ MemInit
    /\ platformOk = TRUE
    /\ \E st \in {StoreInit, StoreWarm, StoreAged, StoreEdited} :
         /\ ManagerFields(st, <<>>)
         /\ fetched = FetchedOf(st)
    /\ \E k \in GetKeys \cup {<<"uiState", AnnContext.uiState>>} :
         lookup = LookupInit(Some(k))
    /\ IndexInit

NextGet == DoGet \/ FetchComplete \/ ClockGet \/ Reseed \/ DoDecode

SpecGet == InitGet /\ [][NextGet]_vars

(***************************************************************************)
(* Vocabulary of the properties.                                           *)
(***************************************************************************)
InSeq(x, seq) == \E i \in 1..Len(seq) : seq[i] = x

\* callback c[2] is registered for key c[1]
Registered(lis, c) == InSeq(c[2], ListenersOf(lis, c[1]))

\* how often the cycle invoked callback cb for key
CallsOf(calls, key, cb) ==
    Cardinality({i \in 1..Len(calls) : calls[i].key = key /\ calls[i].cb = cb})

\* the fields in which two resolved states differ, attribute by attribute
Differing(old, new) == SelectSeq(StateKeys, LAMBDA k : old[k] # new[k])

\* the state a cycle has to resolve, given the reader it leaves behind
Expected ==
    IF reader'.pView /\ reader'.staleCycles < maxStaleCycles
    THEN ResolveState(Some([connected |-> TRUE, uiTick |-> mem.uiTick,
                            identity |-> ParseIdentity(Frames[mem.frame]),
                            context |-> ParseContext(Frames[mem.frame])]),
                      store, now, TRUE).state
    ELSE DisconnectedState

(***************************************************************************)
(* C1: a read of an open mapping reports connected exactly when fewer than *)
(* 3 of the consecutive reads up to and including it found the tick equal  *)
(* to the previously recorded one; when the tick stops after a read that   *)
(* saw it advance, the 1st and 2nd unchanged reads are still connected and *)
(* the 3rd is the first that is not.                                       *)
(***************************************************************************)
RECURSIVE UnchangedRun(_)
\* number of trailing entries of the log whose tick equals the entry before
UnchangedRun(log) ==
    IF Len(log) < 2 THEN 0
    ELSE IF log[Len(log)].uiTick = log[Len(log) - 1].uiTick
         THEN 1 + UnchangedRun(SubSeq(log, 1, Len(log) - 1))
         ELSE 0

C1_ConnectedIffRunBelow3 ==
    Len(readLog) >= 2 =>
        /\ readLog[Len(readLog)].connected <=> UnchangedRun(readLog) < 3
        /\ (Len(readLog) = 5 /\ UnchangedRun(readLog) = 3
                => /\ readLog[2].connected /\ readLog[3].connected
                   /\ readLog[4].connected /\ ~readLog[5].connected)

C1_Witness ==
    /\ Len(readLog) = 5
    /\ UnchangedRun(readLog) = 3
    /\ readLog[3].connected /\ readLog[4].connected
    /\ ~readLog[5].connected

(***************************************************************************)
(* C2: when the open() of start() failed, a later poll cycle opens the     *)
(* mapping: from any state in which start() is waiting for its retry and   *)
(* the platform calls succeed, the mapping eventually is open, unless the  *)
(* platform fails again or start(), restart() or stop() is called.         *)
(***************************************************************************)
C2_OpenRetriedOnLaterPoll ==
    (cycle.awaitingRetry /\ platformOk)
        ~> (reader.pView \/ ~platformOk \/ ~cycle.awaitingRetry)

(***************************************************************************)
(* C3: in a poll cycle that has a previous state, a subscriber registered  *)
(* for field f is invoked once with (newState[f], newState) when f differs *)
(* between the previous and the new state, and not at all when it does     *)
(* not; when no field differs nobody is invoked; states that differ only   *)
(* in mount report exactly "mount".                                        *)
(***************************************************************************)
C3_FieldSubscribersInvokedIffChanged ==
    [][ (PollTimerFires \/ Start) /\ ~IsNone(previousState) =>
          LET old == Val(previousState)
              new == Val(previousState')
              calls == cycle'.calls
          IN  /\ \A c \in HandleKeys : c[1] # "*" =>
                    CallsOf(calls, c[1], c[2]) =
                        IF Registered(listeners, c) /\ old[c[1]] # new[c[1]]
                        THEN 1 ELSE 0
              /\ \A i \in 1..Len(calls) : calls[i].key # "*" =>
                    /\ calls[i].arg = new[calls[i].key]
                    /\ calls[i].state = new
              /\ (old = new => calls = <<>>)
              /\ (old.mount # new.mount /\ [old EXCEPT !.mount = new.mount] = new
                    => cycle'.changed = <<"mount">>)
      ]_vars

C3_Witness ==
    /\ cycle.by = "timer"
    /\ cycle.changed = <<"mount">>
    /\ Len(listeners["mount"]) = 2
    /\ CallsOf(cycle.calls, "mount", "cbA") = 1
    /\ CallsOf(cycle.calls, "mount", "cbB") = 1
    /\ \A i \in 1..Len(cycle.calls) :
          cycle.calls[i].arg = [id |-> 1, name |-> Lit("Jackal")]

C5_FirstCycleReportsEveryField ==
    [][ Start /\ cycle.by = "none" =>
          /\ IsNone(previousState)
          /\ cycle'.changed = StateKeys
          /\ \A c \in HandleKeys :
                CallsOf(cycle'.calls, c[1], c[2]) =
                    IF Registered(listeners, c) THEN 1 ELSE 0
          /\ \A i \in 1..Len(cycle'.calls) :
                cycle'.calls[i].key = "*" => cycle'.calls[i].arg = StateKeys
      ]_vars

C5_Witness ==
    /\ cycle.by = "start"
    /\ cycle.changed = StateKeys
    /\ CallsOf(cycle.calls, "mount", "cbB") = 1
    /\ \E i \in 1..Len(cycle.calls) :
          cycle.calls[i].key = "*" /\ cycle.calls[i].arg = StateKeys

C7_SubscriberExceptionIsolated ==
    (\E i \in 1..Len(cycle.calls) :
        cycle.calls[i].cb \in ThrowsError \cup ThrowsNull)
    => /\ ~cycle.aborted
       /\ \A c \in HandleKeys :
             /\ Registered(listeners, c)
             /\ (c[1] = "*" \/ InSeq(c[1], cycle.changed))
             => CallsOf(cycle.calls, c[1], c[2]) = 1
       /\ previousState = Some(cycle.calls[1].state)

(***************************************************************************)
(* C8: the wildcard subscribers are invoked exactly once in every cycle in *)
(* which at least one field changed, with the list of exactly the changed  *)
(* field names and the full new state, and are not invoked in a cycle in   *)
(* which no field changed.                                                 *)
(***************************************************************************)
C8_WildcardOncePerChangingCycle ==
    [][ PollTimerFires \/ Start =>
          LET new == Val(previousState')
              calls == cycle'.calls
              differing == IF IsNone(previousState) THEN StateKeys
                           ELSE Differing(Val(previousState), new)
          IN  /\ cycle'.changed = differing
              /\ \A cb \in Callbacks :
                    CallsOf(calls, "*", cb) =
                        IF Registered(listeners, <<"*", cb>>) /\ differing # <<>>
                        THEN 1 ELSE 0
              /\ \A i \in 1..Len(calls) : calls[i].key = "*" =>
                    /\ calls[i].arg = differing
                    /\ calls[i].state = new
      ]_vars

C8_Witness ==
    /\ cycle.by = "timer"
    /\ cycle.changed = <<"mount">>
    /\ CallsOf(cycle.calls, "*", "cbA") = 1
    /\ \E i \in 1..Len(cycle.calls) :
          /\ cycle.calls[i].key = "*"
          /\ cycle.calls[i].arg = <<"mount">>
          /\ cycle.calls[i].state = Val(previousState)

(***************************************************************************)
(* C9 (as claimed): the function on(field, cb) returned removes only the   *)
(* registration that created it: a registration whose own function was not *)
(* called stays registered, and calling a function a second time changes   *)
(* nothing.                                                                *)
(***************************************************************************)
C9_RemovesExactlyItsRegistration ==
    /\ [](\A c \in HandleKeys : handles[c].live > 0 => Registered(listeners, c))
    /\ [][\A c \in HandleKeys : UnsubscribeAgain(c) => listeners' = listeners]_vars

(***************************************************************************)
(* C9 (amended): the registrations are a set of callbacks per field.  The  *)
(* function on(field, cb) returned removes cb from the set of field, each  *)
(* time it is called: that ends every registration of cb for field, also   *)
(* one made by another or a later on(field, cb).  The registrations of     *)
(* other callbacks and for other fields are not touched, and a (field, cb) *)
(* no function of which was ever called stays registered.                  *)
(***************************************************************************)
C9_RemovesCallbackFromFieldSet ==
    /\ [](\A c \in HandleKeys :
             handles[c].live > 0 /\ handles[c].called = 0
                => Registered(listeners, c))
    /\ [][\A c \in HandleKeys :
             UnsubscribeFirst(c) \/ UnsubscribeAgain(c) =>
                /\ ~Registered(listeners', c)
                /\ \A d \in HandleKeys \ {c} :
                      Registered(listeners', d) <=> Registered(listeners, d)
          ]_vars

C9_Witness ==
    /\ handles[<<"mount", "cbA">>].called > 0
    /\ ~Registered(listeners, <<"mount", "cbA">>)
    /\ handles[<<"mount", "cbB">>].live > 0
    /\ Registered(listeners, <<"mount", "cbB">>)
    /\ cycle.changed = <<"mount">>
    /\ CallsOf(cycle.calls, "mount", "cbB") = 1
    /\ CallsOf(cycle.calls, "mount", "cbA") = 0

MaxAgeOf(k) ==
    SecondsPerDay *
        (CASE k[1] = "maps" -> MapsStaleAfterDays
           [] k[1] = "specializations" -> SpecsStaleAfterDays
           [] OTHER -> ProfessionsStaleAfterDays)

C11_StoredRowServedRefreshedWhenOld ==
    [][ \A k \in FetchKeys : Get(k) /\ ~IsNone(Row(store, k)) =>
          LET row == Val(Row(store, k))
              r == Val(lookup'.result)
          IN  /\ r.name = row.name
              /\ r.fromCache
              /\ store' = store
              /\ pending' = IF now - row.fetched_at <= MaxAgeOf(k)
                            THEN pending
                            ELSE [pending EXCEPT ![k] = @ + 1]
      ]_vars

\* maps.get(15) served a row older than 30 days; its refresh is in flight
C11_Witness ==
    /\ lookup.key = Some(<<"maps", 15>>)
    /\ lookup.result = Some([name |-> Lit("Lion's Arch"), fromCache |-> TRUE])
    /\ ~IsNone(store.maps[15])
    /\ now - Val(store.maps[15]).fetched_at > MaxAgeOf(<<"maps", 15>>)
    /\ pending[<<"maps", 15>>] = 1

(***************************************************************************)
(* C12: as long as no fetch of id has been stored, every get(id) returns   *)
(* the fallback name `<Kind> <id>` with fromCache = false; once a          *)
(* background fetch of id has completed successfully, every later get(id)  *)
(* returns the name that was fetched last, with fromCache = true.          *)
(***************************************************************************)
KindOf(k) ==
    CASE k[1] = "maps" -> "Map"
      [] k[1] = "specializations" -> "Spec"
      [] OTHER -> "Profession"

C13_FailedFetchLeavesStoreAndIsRetried ==
    [][ \A k \in FetchKeys :
          /\ \A resp \in {None, Throws} : Settle(k, resp) => store' = store
          /\ (Get(k) /\ (IsNone(Row(store, k))
                            \/ now - Val(Row(store, k)).fetched_at > MaxAgeOf(k))
                => pending' = [pending EXCEPT ![k] = @ + 1])
      ]_vars

\* the fetch of map 15 failed, no row was written, and the next
\* maps.get(15) has scheduled the fetch again
C13_Witness ==
    /\ lookup.failed
    /\ IsNone(store.maps[15])
    /\ lookup.key = Some(<<"maps", 15>>)
    /\ lookup.result = Some([name |-> Fallback("Map", 15), fromCache |-> FALSE])
    /\ pending[<<"maps", 15>>] = 1

(***************************************************************************)
(* C14: a poll cycle on a connected snapshot whose ids are all 0 (the      *)
(* identity is missing or carries zeros, the context is zeroed) schedules  *)
(* no background fetch: every cache returns its fixed value for id 0       *)
(* without consulting the store.                                           *)
(***************************************************************************)
\* the ids the frame in shared memory decodes to are all 0
ZeroIds ==
    LET identity == ParseIdentity(Frames[mem.frame])
        context == ParseContext(Frames[mem.frame])
    IN  /\ \/ IsNone(identity)
           \/ /\ Val(identity).profession = 0
              /\ Val(identity).spec = 0
              /\ Val(identity).map_id = 0
              /\ Val(identity).team_color_id = 0
        /\ context.mapId = 0
        /\ context.mapType = 0
        /\ context.mountIndex = 0

C14_ZeroIdsCauseNoRemoteRequest ==
    [][ /\ StartOnce \/ PollTimerFires
        /\ reader'.pView
        /\ reader'.staleCycles < maxStaleCycles
        /\ ZeroIds
        => pending' = pending
      ]_vars

(***************************************************************************)
(* C15: a poll cycle is one step that stores the state resolved from the   *)
(* snapshot and the rows of that moment, whatever background fetches are   *)
(* in flight; it writes no row and consumes no fetch; and while the timer  *)
(* is armed the next cycle can always run, however many fetches are        *)
(* pending and whether or not they ever settle.                            *)
(***************************************************************************)
\* the cycle that would run now stays inside the explored bounds
PollInBounds ==
    /\ ReadInBounds(reader, mem)
    /\ \A k \in ResolveState(ReaderRead(reader, mem).raw, store, now,
                             dbOpen).fetch : pending[k] < MaxInflight

C16_DisconnectedSnapshotGivesDefaults ==
    [][ /\ Start \/ Restart \/ PollTimerFires
        /\ ~(reader'.pView /\ reader'.staleCycles < maxStaleCycles)
        => /\ ~cycle'.aborted
           /\ previousState' =
                Some([connected |-> FALSE,
                      profession |-> [id |-> 0, name |-> <<"Unknown">>],
                      specialization |->
                          [id |-> 0, name |-> <<"None">>, elite |-> FALSE],
                      mapName |-> [id |-> 0, name |-> <<"Unknown">>],
                      gameMode |-> [id |-> 0, name |-> <<"Unknown">>],
                      inCombat |-> FALSE,
                      textboxFocused |-> FALSE,
                      gameHasFocus |-> FALSE,
                      commander |-> FALSE,
                      mount |-> [id |-> 0, name |-> <<"None">>],
                      wvwTeam |-> [id |-> 0, name |-> <<"None">>],
                      characterName |-> ""])
           /\ pending' = pending
           /\ store' = store
      ]_vars

\* the timer polled a mapped view holding Ann's frame after 3 stale
\* cycles, on a closed database, and stored the default record
C16_Witness ==
    /\ cycle.by = "timer"
    /\ reader.pView
    /\ reader.staleCycles >= maxStaleCycles
    /\ Frames[mem.frame].identity = Some(AnnIdentity)
    /\ ~dbOpen
    /\ ~cycle.aborted
    /\ previousState = Some(DisconnectedState)

(***************************************************************************)
(* C17: stop() and restart() cancel the poll timer only: a background      *)
(* fetch that is in flight still settles afterwards, and when the client   *)
(* resolved it with data, the row is written.                              *)
(***************************************************************************)
C17_InflightFetchStillWritten ==
    [][ \A k \in FetchKeys : \A resp \in ApiResponses(k) \ {None} :
          Settle(k, resp) => store' = Upsert(store, k, Val(resp), now)
      ]_vars

(***************************************************************************)
(* C18: restart() leaves the cache database as it is: the connection stays *)
(* open (or closed), no row is inserted, changed or deleted, and every     *)
(* get(id) returns after restart() what it returned before.                *)
(***************************************************************************)
C18_RestartLeavesStoreUntouched ==
    [][ Restart =>
          /\ dbOpen' = dbOpen
          /\ store' = store
          /\ \A k \in FetchKeys :
                CacheGet(store', now', k).val = CacheGet(store, now, k).val
      ]_vars

\* restart() ran on an open database that holds a fetched row while the
\* fetch of another id was in flight; the row is still there
C18_Witness ==
    /\ cycle.by = "restart"
    /\ dbOpen
    /\ ~IsNone(store.maps[15])
    /\ pending[<<"specializations", 5>>] = 1
    /\ ~IsNone(previousState)
    /\ Val(previousState).mapName = [id |-> 15, name |-> Lit("Lion's Arch")]

(***************************************************************************)
(* C19: at most one build() invocation is ever in progress, isBuilding is  *)
(* true exactly while one is, and a build() call made while one is in      *)
(* progress returns without starting a request, writing a row or changing  *)
(* the progress offset.                                                    *)
(***************************************************************************)
C19_BuildIsReentrancySafe ==
    /\ [](/\ Len(tpBuilds) <= 1
          /\ tpIndex.building <=> Len(tpBuilds) = 1)
    /\ [][ Build /\ tpIndex.building =>
             /\ tpBuilds' = tpBuilds
             /\ tpStore' = tpStore
             /\ tpIndex'.building
             /\ tpIndex'.ready = tpIndex.ready
         ]_vars

\* build() was called while the only build was waiting for a batch
C19_Witness ==
    /\ tpIndex.last = "reentered"
    /\ tpIndex.building
    /\ Len(tpBuilds) = 1
    /\ tpBuilds[1].pc = "items"

(***************************************************************************)
(* C20: when a progress offset k > 0 is persisted and no build is in       *)
(* progress, the next build() call starts a build whether the index is     *)
(* ready, stale or neither; that build requests its first batch at index   *)
(* k of the id list and never requests a batch at an index below k.        *)
(***************************************************************************)
C20_ResumesAtPersistedOffset ==
    /\ [](\A n \in 1..Len(tpBuilds) : tpBuilds[n].i >= tpBuilds[n].from)
    /\ [][ Build /\ ~tpIndex.building /\ ~IsNone(tpStore.progress)
                 /\ Val(tpStore.progress) > 0 =>
             /\ Len(tpBuilds') = Len(tpBuilds) + 1
             /\ tpIndex'.building
             /\ tpBuilds'[Len(tpBuilds')].pc = "ids"
             /\ tpBuilds'[Len(tpBuilds')].i = Val(tpStore.progress)
         ]_vars
    /\ [][ \A n \in 1..Len(tpBuilds) :
             IdsArrive(n) /\ Len(tpBuilds') = Len(tpBuilds) =>
                /\ tpBuilds'[n].pc = "items"
                /\ tpBuilds'[n].i = tpBuilds[n].i
         ]_vars

\* a build that found offset 200 persisted, on an index that has rows, is
\* waiting for the batch at index 200
C20_Witness ==
    /\ Len(tpBuilds) = 1
    /\ tpBuilds[1].pc = "items"
    /\ tpBuilds[1].from = BATCH_SIZE
    /\ tpBuilds[1].i = BATCH_SIZE
    /\ tpIndex.ready
    /\ tpStore.items # {}

(***************************************************************************)
(* C21: the persisted progress offset marks the end of the last completed  *)
(* batch: whenever a build leaves an offset p > 0 persisted, the rows of   *)
(* the batch that ends at p (the one at index p - 200) were fetched and    *)
(* upserted, so that no batch whose fetch failed lies below the offset.    *)
(***************************************************************************)
C21_OffsetMarksCompletedBatches ==
    [][ /\ ~IsNone(tpStore'.progress)
        /\ tpStore'.progress # tpStore.progress
        /\ Val(tpStore'.progress) > 0
        => (Val(tpStore'.progress) - BATCH_SIZE) \in tpStore'.items
      ]_vars

(***************************************************************************)
(* C22: a build() call starts no request and writes nothing when the index *)
(* is marked ready, its completion timestamp is at most 7 days old and the *)
(* persisted progress offset is 0; in every other state a build() call     *)
(* made while no build is in progress goes on to request the id list.      *)
(***************************************************************************)
IndexFreshAndComplete ==
    /\ tpIndex.ready
    /\ ~IsNone(tpStore.builtAt)
    /\ now - Val(tpStore.builtAt) <= IndexStaleAfterDays * SecondsPerDay
    /\ (IsNone(tpStore.progress) \/ Val(tpStore.progress) = 0)

C22_SkippedExactlyWhenFreshAndComplete ==
    [][ Build =>
          /\ tpStore' = tpStore
          /\ IndexFreshAndComplete => tpBuilds' = tpBuilds
          /\ ~IndexFreshAndComplete /\ ~tpIndex.building =>
                /\ Len(tpBuilds') = Len(tpBuilds) + 1
                /\ tpBuilds'[Len(tpBuilds')].pc = "ids"
                /\ tpIndex'.building
      ]_vars

\* build() was skipped on an index completed exactly 7 days ago
C22_Witness ==
    /\ tpIndex.last = "skipped"
    /\ tpBuilds = <<>>
    /\ ~IsNone(tpStore.builtAt)
    /\ now - Val(tpStore.builtAt) = IndexStaleAfterDays * SecondsPerDay

(***************************************************************************)
(* C23: every build in progress eventually settles with isBuilding false;  *)
(* a build that ran all its batches without an exception has recorded a    *)
(* completion timestamp, reset the progress offset to 0 and set isReady;   *)
(* a build that ended early (no id list, or an exception) has recorded no  *)
(* completion timestamp and has not reset the progress offset.             *)
(***************************************************************************)
\* this step is the return of a build() invocation
BuildSettles == BuildResumes /\ Len(tpBuilds') < Len(tpBuilds)

\* the step reset the persisted progress offset to 0
OffsetReset == tpStore'.progress = Some(0) /\ tpStore.progress # Some(0)

SettlesAsCompleted ==
    /\ ~IsNone(tpStore'.builtAt)
    /\ Val(tpStore'.builtAt) <= now
    /\ tpStore'.progress = Some(0)
    /\ tpIndex'.ready

C23_SettlesCompleteOrUntouched ==
    /\ tpIndex.building ~> ~tpIndex.building
    /\ [][ BuildSettles =>
             /\ ~tpIndex'.building
             /\ IF tpIndex'.last = "completed" THEN SettlesAsCompleted
                ELSE /\ tpStore'.builtAt = tpStore.builtAt
                     /\ ~OffsetReset
         ]_vars

(***************************************************************************)
(* C23 as the code has it: as above, except that a build whose statement   *)
(* resetting the offset throws has already recorded its completion         *)
(* timestamp; it leaves the offset and isReady as they were.               *)
(***************************************************************************)
C23_SettlesCompleteOrWithoutReset ==
    /\ tpIndex.building ~> ~tpIndex.building
    /\ [][ BuildSettles =>
             /\ ~tpIndex'.building
             /\ IF tpIndex'.last = "completed" THEN SettlesAsCompleted
                ELSE /\ ~OffsetReset
                     /\ tpIndex'.ready = tpIndex.ready
                     /\ IF tpIndex'.last = "resetThrew"
                        THEN ~IsNone(tpStore'.builtAt)
                        ELSE tpStore'.builtAt = tpStore.builtAt
         ]_vars

\* a build of three batches has completed
C23_Witness ==
    /\ tpIndex.last = "completed"
    /\ ~tpIndex.building
    /\ tpIndex.ready
    /\ tpStore.progress = Some(0)
    /\ tpStore.items = {0, BATCH_SIZE, 2 * BATCH_SIZE}

(***************************************************************************)
(* C24: search(query) is answered from the rows that exist, whatever the   *)
(* state of the index; it returns nothing for a query shorter than 2       *)
(* characters, at most 20 rows, and only rows whose name contains the      *)
(* query as a case-insensitive substring.                                  *)
(***************************************************************************)
\* the items whose rows are in tp_items
RowsOf(st) ==
    UNION {b..(b + st.rows[b] - 1) : b \in BatchOffsets}

\* str contains sub, letters compared without regard to case
Contains(str, sub) ==
    \E i \in 0..(Len(str) - Len(sub)) :
        \A j \in 1..Len(sub) : Lower(str[i + j]) = Lower(sub[j])

C24_SearchReturnsSubstringMatches ==
    [][ DoSearch =>
          LET query == Val(lookup.key)[2]
              results == Val(lookup'.result)
          IN  /\ results \subseteq RowsOf(tpStore)
              /\ Cardinality(results) <= SEARCH_LIMIT
              /\ IsNone(query) \/ Len(Val(query)) < MinQueryLength =>
                    results = {}
              /\ ~IsNone(query) =>
                    \A i \in results : Contains(NameOf(i), Val(query))
      ]_vars

(***************************************************************************)
(* C25: any two requests that the client sends are at least                *)
(* MIN_REQUEST_INTERVAL_MS apart, whatever the interleaving of the callers *)
(* of #fetch, several of which may have started while the last request was *)
(* less than the interval old.                                             *)
(***************************************************************************)
C25_RequestsAreSpaced ==
    IsNone(api.minGap) \/ Val(api.minGap) >= MIN_REQUEST_INTERVAL_MS

(***************************************************************************)
(* C29: get(itemId) of the price cache is a lookup and nothing else: it    *)
(* returns the stored entry, null when there is none, it sends no request  *)
(* and starts no call of the client, and it leaves the store as it was;    *)
(* an entry of the price table changes only in a step in which a           *)
(* refresh() of that item settles.                                         *)
(***************************************************************************)
C29_GetIsPureLookup ==
    [][lookup.key = Some(<<"price">>) =>
         /\ (lookup' # lookup /\ Val(lookup'.result).op = "get") =>
              /\ Val(lookup'.result).ret = tpStore.prices[Val(lookup'.result).id]
              /\ api' = api
              /\ tpStore' = tpStore
         /\ \A id \in PriceIds :
              tpStore'.prices[id] # tpStore.prices[id] =>
                 /\ lookup' # lookup
                 /\ Val(lookup'.result).op = "refresh"
                 /\ Val(lookup'.result).id = id
                 /\ Len(api'.inflight) < Len(api.inflight)]_vars

\* get() answered null for an item whose refresh() is waiting for its
\* response
C29_Witness ==
    /\ lookup.key = Some(<<"price">>)
    /\ ~IsNone(lookup.result)
    /\ Val(lookup.result).op = "get"
    /\ IsNone(Val(lookup.result).ret)
    /\ InSeq(Val(lookup.result).id, api.inflight)

(***************************************************************************)
(* C30: when the request of refresh(itemId) succeeds, the fetched buy and  *)
(* sell prices and quantities (zero for a side that the listing lacks) are *)
(* what get(itemId) returns next, and refresh returns the two prices; when *)
(* the request fails, refresh returns null and the table is as it was.     *)
(***************************************************************************)
C30_RefreshStoresWhatItFetched ==
    [][(/\ lookup.key = Some(<<"price">>)
        /\ lookup' # lookup
        /\ Val(lookup'.result).op = "refresh") =>
         LET r == Val(lookup'.result)
             got == PricesGet(tpStore', r.id)
             Price(side) == IF IsNone(side) THEN 0 ELSE Val(side).unit_price
             Quantity(side) == IF IsNone(side) THEN 0 ELSE Val(side).quantity
         IN  IF IsNone(r.fetched)
             THEN /\ IsNone(r.ret)
                  /\ tpStore' = tpStore
             ELSE /\ ~IsNone(got)
                  /\ Val(got).buyPrice = Price(Val(r.fetched).buys)
                  /\ Val(got).sellPrice = Price(Val(r.fetched).sells)
                  /\ Val(got).buyQuantity = Quantity(Val(r.fetched).buys)
                  /\ Val(got).sellQuantity = Quantity(Val(r.fetched).sells)
                  /\ r.ret = Some([buyPrice |-> Val(got).buyPrice,
                                   sellPrice |-> Val(got).sellPrice])
                  /\ \A id \in PriceIds \ {r.id} :
                        tpStore'.prices[id] = tpStore.prices[id]]_vars

\* a refresh() failed for an item that an earlier refresh() had stored
C30_Witness ==
    /\ lookup.key = Some(<<"price">>)
    /\ ~IsNone(lookup.result)
    /\ Val(lookup.result).op = "refresh"
    /\ IsNone(Val(lookup.result).fetched)
    /\ ~IsNone(tpStore.prices[Val(lookup.result).id])

(***************************************************************************)
(* C26: the batch fetches of the client and of the index build.            *)
(* getAllWvWObjectives: every request carries 1 to 200 ids, the first      *)
(* chunk starts at 0 and each next one where the one before ended, the     *)
(* results collected so far are never dropped, and a call that returns a   *)
(* list has requested the whole id list and returns the objectives of      *)
(* exactly the chunks whose request did not fail.  build: the first chunk  *)
(* starts at the resume offset and each next one 200 further, inside the   *)
(* list; a step stores rows of one chunk only, at most 200 of them, and    *)
(* removes none; and a chunk that leaves the table as it was (its request  *)
(* failed) is followed by the request of the next chunk.                   *)
(***************************************************************************)
C26_ChunksOf200KeptWhenOthersFail ==
    [][/\ (lookup.key = Some(<<"objectives">>) /\ ~IsNone(lookup'.result)) =>
            LET call == Val(lookup'.result)
                reqs == call.requests
                last == reqs[Len(reqs)]
            IN  /\ \A k \in 1..Len(reqs) :
                      /\ reqs[k][2] \in 1..200
                      /\ reqs[k][1] = IF k = 1 THEN 0
                                      ELSE reqs[k - 1][1] + reqs[k - 1][2]
                /\ (call.pc = "done" /\ ~call.null) =>
                      /\ IF reqs = <<>> THEN call.len = 0
                         ELSE last[1] + last[2] = call.len
                      /\ call.results =
                            {reqs[k][1] : k \in 1..Len(reqs)} \ call.failed
                /\ ~IsNone(lookup.result) =>
                      Val(lookup.result).results \subseteq call.results
       /\ lookup.key = Some(<<"build">>) =>
            /\ \A b \in BatchOffsets :
                  /\ tpStore'.rows[b] >= tpStore.rows[b]
                  /\ tpStore'.rows[b] <= 200
            /\ \A n \in 1..Len(tpBuilds) :
                  LET old == tpBuilds[n]
                      new == tpBuilds'[n]
                  IN  /\ (Len(tpBuilds') = Len(tpBuilds) /\ new # old) =>
                            /\ new.pc = "items"
                            /\ new.i < new.len
                            /\ old.pc = "ids" => new.i = old.from
                            /\ old.pc = "items" =>
                                  /\ new.i = old.i + 200
                                  /\ new.len = old.len
                                  /\ \A b \in BatchOffsets \ {old.i} :
                                        tpStore'.rows[b] = tpStore.rows[b]
                      /\ (/\ old.pc = "items"
                          /\ old.i + 200 < old.len
                          /\ tpStore'.progress # tpStore.progress
                          /\ tpStore'.rows = tpStore.rows) =>
                            /\ Len(tpBuilds') = Len(tpBuilds)
                            /\ new.pc = "items"
                            /\ new.i = old.i + 200]_vars

\* getAllWvWObjectives returned the objectives of one chunk although the
\* request of a chunk before it had failed
C26_Witness ==
    /\ lookup.key = Some(<<"objectives">>)
    /\ ~IsNone(lookup.result)
    /\ Val(lookup.result).pc = "done"
    /\ \E f \in Val(lookup.result).failed, r \in Val(lookup.result).results :
          f < r

(***************************************************************************)
(* C27: get(id) of MapTypesCache, MountsCache and WvWTeamColorsCache       *)
(* starts no fetch and leaves the tables as they are; it returns the name  *)
(* of the row with that id and fromCache = true when the table has such a  *)
(* row, and otherwise the name "Mode <id>", "Mount <id>" or "Team <id>"    *)
(* and fromCache = false.                                                  *)
(***************************************************************************)
C27_StaticGetNeverFetches ==
    [][(/\ ~IsNone(lookup.key)
        /\ Val(lookup.key)[1] \in {"map_types", "mounts", "wvw_team_colors"}
        /\ lookup'.parity # lookup.parity) =>
         LET k == Val(lookup.key)
             table == CASE k[1] = "map_types" -> store.map_types
                        [] k[1] = "mounts" -> store.mounts
                        [] OTHER -> store.wvw_team_colors
             kind == CASE k[1] = "map_types" -> "Mode"
                       [] k[1] = "mounts" -> "Mount"
                       [] OTHER -> "Team"
             rows == {r \in table : r.id = k[2]}
             got == Val(lookup'.result)
         IN  /\ pending' = pending
             /\ store' = store
             /\ IF rows # {}
                THEN got.fromCache /\ got.name \in {r.name : r \in rows}
                ELSE ~got.fromCache /\ got.name = Fallback(kind, k[2])]_vars

\* get(9) returned the name that the table has for id 9, not the one of the
\* seed file
C27_Witness ==
    /\ ~IsNone(lookup.key)
    /\ Val(lookup.key) = <<"mounts", 9>>
    /\ ~IsNone(lookup.result)
    /\ Val(lookup.result) = [name |-> Lit("Edited"), fromCache |-> TRUE]

C31_FlagsAreBits0To6 ==
    (/\ ~IsNone(lookup.key)
     /\ Val(lookup.key)[1] = "uiState"
     /\ ~IsNone(lookup.result)) =>
        LET w == Val(lookup.key)[2]
            ui == Val(lookup.result).raw.context.uiState
            state == Val(lookup.result).state
        IN  /\ ui.isMapOpen <=> w % 2 = 1
            /\ ui.isCompassTopRight <=> (w \div 2) % 2 = 1
            /\ ui.isCompassRotating <=> (w \div 4) % 2 = 1
            /\ ui.gameHasFocus <=> (w \div 8) % 2 = 1
            /\ ui.isCompetitive <=> (w \div 16) % 2 = 1
            /\ ui.textboxHasFocus <=> (w \div 32) % 2 = 1
            /\ ui.isInCombat <=> (w \div 64) % 2 = 1
            /\ state.connected
            /\ state.gameHasFocus <=> (w \div 8) % 2 = 1
            /\ state.textboxFocused <=> (w \div 32) % 2 = 1
            /\ state.inCombat <=> (w \div 64) % 2 = 1

\* a word with bit 6 and higher bits set and the bits 0 to 5 clear was
\* decoded
C31_Witness ==
    /\ lookup.key = Some(<<"uiState", 64 + 65536>>)
    /\ ~IsNone(lookup.result)
    /\ Val(lookup.result).state.inCombat
    /\ ~Val(lookup.result).state.gameHasFocus

(***************************************************************************)
(* C32: the state resolved from a connected snapshot with identity         *)
(* profession 8, spec 0 and context mapType 5 has profession id 8 with the *)
(* name of the professions row 8, specialization id 0 named "Core" and     *)
(* gameMode id 5 with the name of the map_types row 5; on the seeded rows  *)
(* these names are "Necromancer" and "Open World".  The map, the mount     *)
(* and the team carry their raw ids 15, 0 and 0.                           *)
(***************************************************************************)
C32_ResolvedFieldsCarryIdAndCachedName ==
    [][(/\ ~IsNone(lookup.key)
        /\ Val(lookup.key)[1] = "uiState"
        /\ lookup'.parity # lookup.parity) =>
          LET state == Val(lookup'.result).state
              prof == Val(store.professions[8]).name
              mode == {r.name : r \in {q \in store.map_types : q.id = 5}}
          IN  /\ state.profession = [id |-> 8, name |-> prof]
              /\ state.specialization.id = 0
              /\ state.specialization.name = Lit("Core")
              /\ state.gameMode.id = 5
              /\ state.gameMode.name \in mode
              /\ state.mapName.id = 15
              /\ state.mount.id = 0
              /\ state.wvwTeam.id = 0
              /\ prof = Lit(PROFESSIONS_SEED[8]) =>
                    state.profession
                       = [id |-> 8, name |-> Lit("Necromancer")]
              /\ mode = {Lit(MAP_TYPES_SEED[5])} =>
                    state.gameMode
                       = [id |-> 5, name |-> Lit("Open World")]]_vars

\* the example of the specification was resolved on the seeded rows
C32_Witness ==
    /\ ~IsNone(lookup.key)
    /\ Val(lookup.key)[1] = "uiState"
    /\ ~IsNone(lookup.result)
    /\ Val(lookup.result).state.profession
          = [id |-> 8, name |-> Lit("Necromancer")]
    /\ Val(lookup.result).state.gameMode
          = [id |-> 5, name |-> Lit("Open World")]
    /\ Val(lookup.result).state.specialization.name = Lit("Core")

(***************************************************************************)
(* C33: a read() of a mapped view whose identity field is empty or holds   *)
(* text that is not JSON still returns a snapshot: its identity is null,   *)
(* its tick and context are those of the buffer, and the stale counter,    *)
(* the recorded tick and `connected` are what the same read gives on a     *)
(* well-formed identity.                                                   *)
(***************************************************************************)
C33_BadIdentityDoesNotAbortRead ==
    [][(/\ lookup' # lookup
        /\ Val(lookup'.result).op = "read"
        /\ reader.pView
        /\ \/ IsNone(Frames[mem.frame].identity)
           \/ "text" \in DOMAIN Val(Frames[mem.frame].identity)) =>
          LET ret == Val(lookup'.result).ret
              wellFormed == ReaderRead(reader, [mem EXCEPT !.frame = 2])
              ctx == Frames[mem.frame].context
          IN  /\ ~IsNone(ret)
              /\ IsNone(Val(ret).identity)
              /\ Val(ret).uiTick = mem.uiTick
              /\ Val(ret).context.mapId = ctx.mapId
              /\ Val(ret).context.mapType = ctx.mapType
              /\ Val(ret).context.mountIndex = ctx.mountIndex
              /\ Val(ret).context.uiState.raw = ctx.uiState
              /\ Val(ret).context.uiState.gameHasFocus = Bit(ctx.uiState, 3)
              /\ ~IsNone(Frames[2].identity)
              /\ Val(wellFormed.raw).identity = Frames[2].identity
              /\ Val(ret).connected = Val(wellFormed.raw).connected
              /\ reader' = wellFormed.r
              /\ reader'.lastTick = mem.uiTick
              /\ reader'.staleCycles
                    = IF mem.uiTick = reader.lastTick
                      THEN reader.staleCycles + 1 ELSE 0]_vars

\* a read of text cut off in the middle returned a connected snapshot with
\* a fresh tick and no identity
C33_Witness ==
    /\ lookup.key = Some(<<"calls">>)
    /\ ~IsNone(lookup.result)
    /\ Val(lookup.result).op = "read"
    /\ ~IsNone(Val(lookup.result).ret)
    /\ ~IsNone(Frames[mem.frame].identity)
    /\ "text" \in DOMAIN Val(Frames[mem.frame].identity)
    /\ IsNone(Val(Val(lookup.result).ret).identity)
    /\ Val(Val(lookup.result).ret).connected
    /\ Val(Val(lookup.result).ret).uiTick = 1
    /\ Val(Val(lookup.result).ret).context.mapId = 15
    /\ reader.staleCycles = 0

(***************************************************************************)
(* C34: when the last call of a sequence of open() and close() calls was   *)
(* close(), no view is mapped, no handle is held, every handle and view    *)
(* that an open() of the sequence acquired has been released, and one      *)
(* more close() changes nothing.                                           *)
(***************************************************************************)
C34_CloseReleasesEverything ==
    (/\ lookup.key = Some(<<"calls">>)
     /\ ~IsNone(lookup.result)
     /\ Val(lookup.result).op = "close") =>
        /\ ~reader.pView
        /\ ~reader.hMapFile
        /\ ~lookup.leaked
        /\ ReaderClose(reader) = reader

(***************************************************************************)
(* C35: a read() while no view is mapped (before any open(), after an      *)
(* open() that failed, after close()) returns null and leaves the stale    *)
(* counter and the recorded tick as they were.                             *)
(***************************************************************************)
C35_ReadWithoutViewIsNull ==
    [][(/\ lookup' # lookup
        /\ Val(lookup'.result).op = "read"
        /\ ~reader.pView) =>
          /\ IsNone(Val(lookup'.result).ret)
          /\ reader'.staleCycles = reader.staleCycles
          /\ reader'.lastTick = reader.lastTick
          /\ reader' = reader]_vars

\* a reader that had read and counted, was closed, and was then asked to
\* read a tick it had not seen: null, and the bookkeeping is as it was
C35_Witness ==
    /\ lookup.key = Some(<<"calls">>)
    /\ ~IsNone(lookup.result)
    /\ Val(lookup.result).op = "read"
    /\ IsNone(Val(lookup.result).ret)
    /\ ~reader.pView
    /\ reader.staleCycles = 2
    /\ reader.lastTick # mem.uiTick

(***************************************************************************)
(* C36: an open() that returned false leaves no view mapped and no handle  *)
(* held.                                                                   *)
(***************************************************************************)
C36_FailedOpenHoldsNothing ==
    [][(/\ lookup' # lookup
        /\ Val(lookup'.result).op = "open"
        /\ ~Val(lookup'.result).ret) =>
          /\ ~reader'.pView
          /\ ~reader'.hMapFile]_vars

(***************************************************************************)
(* C37: every callback invoked by one poll cycle receives the same full    *)
(* state, and that state is the one resolved from the snapshot the cycle   *)
(* read.  The cycle of a restart() called by a subscriber hands its own    *)
(* state to its own invocations; the invocations around it receive the     *)
(* state of the cycle that made them.                                      *)
(***************************************************************************)
C37_EachCycleHandsOutOneState ==
    \A i \in 1..Len(cycle.calls) :
       LET InNested(k) == /\ cycle.nested # <<>>
                          /\ k >= cycle.nested[1]
                          /\ k <= cycle.nested[2]
           snap == cycle.snapshots[IF InNested(i) THEN 2 ELSE 1]
           st == cycle.calls[i].state
       IN  /\ \A j \in 1..Len(cycle.calls) :
                 InNested(j) = InNested(i) => cycle.calls[j].state = st
           /\ IF IsNone(snap) \/ ~Val(snap).connected
              THEN st = DisconnectedState
              ELSE /\ st.connected
                   /\ st.mount.id = Val(snap).context.mountIndex
                   /\ st.gameMode.id = Val(snap).context.mapType
                   /\ st.gameHasFocus = Val(snap).context.uiState.gameHasFocus
                   /\ IF IsNone(Val(snap).identity)
                      THEN /\ st.characterName = ""
                           /\ st.profession.id = 0
                           /\ st.mapName.id = Val(snap).context.mapId
                      ELSE /\ st.characterName = Val(Val(snap).identity).name
                           /\ st.profession.id
                                 = Val(Val(snap).identity).profession
                           /\ st.specialization.id
                                 = Val(Val(snap).identity).spec
                           /\ st.mapName.id = Val(Val(snap).identity).map_id

\* a subscriber called restart() from its callback: the nested cycle read a
\* stale tick for the third time and told its subscribers "disconnected",
\* and the callbacks after it still received the outer cycle's connected
\* state
C37_Witness ==
    /\ cycle.nested # <<>>
    /\ cycle.nested[1] <= cycle.nested[2]
    /\ cycle.nested[2] < Len(cycle.calls)
    /\ cycle.calls[1].state.connected
    /\ cycle.calls[1].state.mount.id = 1
    /\ ~cycle.calls[cycle.nested[1]].state.connected
    /\ cycle.calls[Len(cycle.calls)].state = cycle.calls[1].state
    /\ ~Val(cycle.snapshots[2]).connected

(***************************************************************************)
(* C38: what getCurrentState() returns while a subscriber callback runs    *)
(* is the full state that was passed to that callback.                     *)
(***************************************************************************)
C38_CurrentStateIsTheNotifiedState ==
    \A i \in 1..Len(cycle.calls) :
       cycle.calls[i].cur = Some(cycle.calls[i].state)

(***************************************************************************)
(* C39: while the mapping holds what its creation left there (tick 0, no   *)
(* identity, a zero context), no read() reports connected = true, the      *)
(* manager stores and hands out no connected state, and no fetch is        *)
(* scheduled.                                                              *)
(***************************************************************************)
C39_UnwrittenMappingIsNeverConnected ==
    mem = [uiTick |-> 0, frame |-> 1] =>
       /\ \A i \in 1..Len(cycle.snapshots) :
             IsNone(cycle.snapshots[i]) \/ ~Val(cycle.snapshots[i]).connected
       /\ IsNone(previousState) \/ ~Val(previousState).connected
       /\ \A i \in 1..Len(cycle.calls) : ~cycle.calls[i].state.connected
       /\ \A k \in FetchKeys : pending[k] = 0

(***************************************************************************)
(* C40: no interval timer is left running beside the one #pollTimer        *)
(* refers to (so at most one is active, and every other one ever created   *)
(* has been cancelled), and while no timer is recorded (before start(),    *)
(* after stop()) no timer runs a poll cycle.                               *)
(***************************************************************************)
C40_OneTimerAndQuietAfterStop ==
    [][/\ orphanTimers' = 0
       /\ ~pollTimer => ~(cycle' # cycle /\ cycle'.by = "timer")]_vars

====
